---- MODULE Spec2Model ----
(***************************************************************************)
(* Model of the Model Linker client (LinkerManagerDialog and ModelLinker   *)
(* of web/linker.js): the candidate lists the dialog renders, the order of *)
(* the missing-model entries, the resolve flows against the live graph,    *)
(* the direct node update and the download tracking table.                 *)
(***************************************************************************)
EXTENDS Integers, Sequences, FiniteSets, TLC

VARIABLES
    matches,        \* renderMissingModel: missing.matches of the entry rendered
    rendered,       \* renderMissingModel: what was rendered for that entry
    renderPc,       \* "input" before the call, "done" after it
    data,           \* displayMissingModels: data.missing_models of the response
    sortedMissingModels,  \* displayMissingModels: the entries in display order
    displayPc,      \* "input" before the call, "done" after it
    graph,          \* app.graph: the path held by every model-path widget
    store,          \* the candidates the server finds for each missing path
    displayed,      \* the entries the dialog lists (last loadWorkflowData)
    flows,          \* the resolveModel / autoResolve100Percent /
                    \* autoResolveAfterDownload calls and where each one is
    liveNodes,      \* updateNodesDirectly: the nodes of app.graph by id
    batch,          \* updateNodesDirectly: the resolutions it is called with
    patchPc,        \* "input" before the call, "done" after it
    activeDownloads,  \* this.activeDownloads: download id -> the entry it is for
    jobs,           \* the server's download jobs: id -> status
    starting,       \* downloadModel and downloadFromSearch calls awaiting the
                    \* start response, per entry
    inflight,       \* progress requests awaiting their response, per id
    timers,         \* setTimeout(pollDownloadProgress) pending, per id
    lastPoll,       \* what the last answered poll of an id saw
    cancelAsked,    \* ids the server was asked to cancel
    handled,        \* per id: terminal statuses handled, auto-resolves scheduled
    startedBy,      \* per entry: what issued its latest start request
    footer,         \* this.downloadAllButton: its mode and the count it shows
    progressDiv,    \* per entry: what its progress area shows, the download it
                    \* shows and the downloads its Cancel button cancels
    completed,      \* autoResolveAfterDownload: the entry the download was
                    \* started for and the filename it completed with
    submitted,      \* the requests the call has sent (autoResolveAfterDownload:
                    \* resolutions, downloadAllMissing: download requests)
    progress,       \* pollDownloadProgress: the progress snapshot of a poll
    progressText,   \* pollDownloadProgress: the parts of the progress line
    toDownload,     \* downloadAllMissing: the entries it starts a download for
    cancelAll,      \* cancelAllDownloads: its downloadIds and the requests sent
    container,      \* displayMissingModels: the buttons of the container in
                    \* document order, each with its click listeners
    clicked,        \* the button clicked last and the calls its listeners made
    popups,         \* the host's Missing Models popups: the mutation events seen,
                    \* the injection timers pending and the buttons injected
    modelLinker,    \* ModelLinker: isCheckingMissing, lastCheckedWorkflow, the
                    \* auto-open preference, the loaded workflow, the dialog
    checks,         \* the calls of checkAndOpenForMissingModels and where each is
    callPc          \* "input" before one of these calls, "done" after it

renderVars == <<matches, rendered, renderPc>>

displayVars == <<data, sortedMissingModels, displayPc>>

resolveVars == <<graph, store, displayed, flows>>

patchVars == <<liveNodes, batch, patchPc>>

vars == <<matches, rendered, renderPc, data, sortedMissingModels, displayPc,
          graph, store, displayed, flows, liveNodes, batch, patchPc,
          activeDownloads, jobs, starting, inflight, timers, lastPoll, cancelAsked,
          handled, startedBy, footer, progressDiv,
          completed, submitted, progress, progressText, toDownload, cancelAll,
          container, clicked, popups, modelLinker, checks, callPc>>

buttonVars == <<container, clicked>>

popupVars == <<popups>>

checkVars == <<modelLinker, checks>>

uiVars == <<buttonVars, popupVars, checkVars>>

callVars == <<completed, submitted, progress, progressText, toDownload, cancelAll, callPc,
              uiVars>>

downloadVars ==
    <<activeDownloads, jobs, starting, inflight, timers, lastPoll, cancelAsked,
      handled, startedBy, footer, progressDiv>>

(***************************************************************************)
(* Bounds of the model and constants of the program.                       *)
(***************************************************************************)
MaxMatches == 6

MinConfidence == 70

PerfectConfidence == 100

MaxShown == 5

Confidences == {69, 70, 90, 100}

MaxEntries == 3

(***************************************************************************)
(* Array helpers: Array.prototype.sort (stable, by a numeric comparator),  *)
(* filter, slice(0, n), find.                                              *)
(***************************************************************************)
MaxOf(S) == CHOOSE x \in S : \A y \in S : y <= x

Slice(s, n) == SubSeq(s, 1, IF Len(s) < n THEN Len(s) ELSE n)

(***************************************************************************)
(* renderMissingModel: the candidate rows of one entry.                    *)
(***************************************************************************)
AtLeastMin(m) == m.confidence >= MinConfidence

IsPerfect(m) == m.confidence = PerfectConfidence

IsOther(m) == m.confidence < PerfectConfidence /\ m.confidence >= MinConfidence

\* (a, b) => b.confidence - a.confidence
ByConfidenceDesc(a, b) == b.confidence - a.confidence

\* 100% first, then by confidence descending
PerfectFirst(a, b) ==
    IF a.confidence = PerfectConfidence /\ b.confidence # PerfectConfidence THEN -1
    ELSE IF a.confidence # PerfectConfidence /\ b.confidence = PerfectConfidence THEN 1
    ELSE b.confidence - a.confidence

FilteredMatches(allMatches) == SelectSeq(allMatches, AtLeastMin)

Has100(ms) == \E k \in 1..Len(ms) : ms[k].confidence = PerfectConfidence

\* Math.max(...filtered.map(m => m.confidence)), 0 for an empty list
BestConf(ms) ==
    IF Len(ms) > 0 THEN MaxOf({ms[k].confidence : k \in 1..Len(ms)}) ELSE 0

EntryOrderAscending(a, b) ==
    LET aFiltered == FilteredMatches(a.matches)
        bFiltered == FilteredMatches(b.matches)
    IN  IF Has100(aFiltered) /\ ~Has100(bFiltered) THEN -1
        ELSE IF ~Has100(aFiltered) /\ Has100(bFiltered) THEN 1
        ELSE BestConf(aFiltered) - BestConf(bFiltered)

\* the comparator of missingModels.sort
EntryOrder(a, b) ==
    LET aFiltered == FilteredMatches(a.matches)
        bFiltered == FilteredMatches(b.matches)
        aHas100 == Has100(aFiltered)
        bHas100 == Has100(bFiltered)
    IN  IF aHas100 /\ ~bHas100 THEN -1
        ELSE IF ~aHas100 /\ bHas100 THEN 1
        ELSE BestConf(bFiltered) - BestConf(aFiltered)

\* The comparator callbacks handed to Array.prototype.sort, by name.
Compare(cmp, a, b) ==
    CASE cmp = "byConfidenceDesc" -> ByConfidenceDesc(a, b)
      [] cmp = "perfectFirst" -> PerfectFirst(a, b)
      [] cmp = "entryOrder" -> EntryOrder(a, b)

\* Array.prototype.sort is stable: x is inserted into the sorted prefix t
\* right after the last element it does not sort before, which keeps
\* elements that compare equal in their order.
InsertSorted(t, x, cmp) ==
    LET notAfter == {i \in 1..Len(t) : Compare(cmp, x, t[i]) >= 0}
        p == MaxOf(notAfter \cup {0})
    IN  SubSeq(t, 1, p) \o <<x>> \o SubSeq(t, p + 1, Len(t))

StableSort(s, cmp) ==
    LET F[k \in 0..Len(s)] ==
            IF k = 0 THEN <<>> ELSE InsertSorted(F[k - 1], s[k], cmp)
    IN  F[Len(s)]

PerfectMatches(allMatches) == SelectSeq(FilteredMatches(allMatches), IsPerfect)

OtherMatches(allMatches) == SelectSeq(FilteredMatches(allMatches), IsOther)

ShowAllFiltered(allMatches) ==
    StableSort(Slice(StableSort(FilteredMatches(allMatches), "byConfidenceDesc"), MaxShown),
               "perfectFirst")

ShowUncapped(allMatches) ==
    LET matchesToShow ==
            IF Len(PerfectMatches(allMatches)) > 0
            THEN PerfectMatches(allMatches)
            ELSE StableSort(OtherMatches(allMatches), "byConfidenceDesc")
    IN  StableSort(matchesToShow, "perfectFirst")

\* matchesToShow, then sortedMatches: the rows that get a Link button
SortedMatches(allMatches) ==
    LET matchesToShow ==
            IF Len(PerfectMatches(allMatches)) > 0
            THEN PerfectMatches(allMatches)
            ELSE Slice(StableSort(OtherMatches(allMatches), "byConfidenceDesc"), MaxShown)
    IN  StableSort(matchesToShow, "perfectFirst")

\* The "<n> other match(es) below 100%" note: 0 when no note is rendered.
OtherNote(allMatches) ==
    IF Len(FilteredMatches(allMatches)) > 0
       /\ Len(PerfectMatches(allMatches)) > 0
       /\ Len(OtherMatches(allMatches)) > 0
    THEN Len(OtherMatches(allMatches))
    ELSE 0

renderMissingModel(allMatches) ==
    [rows |-> IF Len(FilteredMatches(allMatches)) > 0
              THEN SortedMatches(allMatches) ELSE <<>>,
     note |-> OtherNote(allMatches)]

(***************************************************************************)
(* Specification of the rendering of one entry: any list of candidates an  *)
(* analyze response can carry, then the call.                              *)
(***************************************************************************)
MatchLists ==
    UNION {{[i \in 1..n |-> [idx |-> i, confidence |-> cs[i]]] :
                cs \in [1..n -> Confidences]} : n \in 0..MaxMatches}

NoRender == [rows |-> <<>>, note |-> 0]

IdleRender ==
    /\ matches = <<>>
    /\ rendered = NoRender
    /\ renderPc = "idle"

IdleDisplay ==
    /\ data = <<>>
    /\ sortedMissingModels = <<>>
    /\ displayPc = "idle"

IdleResolve ==
    /\ graph = <<>>
    /\ store = <<>>
    /\ displayed = <<>>
    /\ flows = <<>>

IdlePatch ==
    /\ liveNodes = <<>>
    /\ batch = <<>>
    /\ patchPc = "idle"

\* no call of cancelAllDownloads so far
NoCancelAll == [pc |-> "idle", downloadIds |-> <<>>, sent |-> <<>>, failed |-> {}]

\* no button clicked so far
NoClick == [button |-> 0, run |-> <<>>]

IdleButtons ==
    /\ container = <<>>
    /\ clicked = NoClick

IdlePopups == popups = <<>>

IdleChecks == modelLinker = <<>> /\ checks = <<>>

IdleUi == IdleButtons /\ IdlePopups /\ IdleChecks

IdleCall ==
    /\ IdleUi
    /\ cancelAll = NoCancelAll
    /\ completed = <<>>
    /\ submitted = <<>>
    /\ progress = <<>>
    /\ progressText = <<>>
    /\ toDownload = <<>>
    /\ callPc = "idle"

IdleDownload ==
    /\ activeDownloads = <<>>
    /\ jobs = <<>>
    /\ starting = <<>>
    /\ inflight = <<>>
    /\ timers = <<>>
    /\ lastPoll = <<>>
    /\ cancelAsked = {}
    /\ handled = <<>>
    /\ startedBy = <<>>
    /\ footer = [mode |-> "download_all", n |-> 0]
    /\ progressDiv = <<>>

InitRender ==
    /\ matches \in MatchLists
    /\ rendered = NoRender
    /\ renderPc = "input"
    /\ IdleDisplay
    /\ IdleResolve
    /\ IdlePatch
    /\ IdleDownload
    /\ IdleCall

Render ==
    /\ renderPc = "input"
    /\ rendered' = renderMissingModel(matches)
    /\ renderPc' = "done"
    /\ UNCHANGED <<matches, displayVars, resolveVars, patchVars, downloadVars, callVars>>

NextRender == Render

SpecRender == InitRender /\ [][NextRender]_vars

(***************************************************************************)
(* displayMissingModels: the order of the entries.                         *)
(***************************************************************************)
\* sortedMissingModels; nothing is listed when total_missing is 0
displayMissingModels(missingModels) ==
    IF Len(missingModels) = 0 THEN <<>> ELSE StableSort(missingModels, "entryOrder")

MkMatches(cs) == [i \in 1..Len(cs) |-> [idx |-> i, confidence |-> cs[i]]]

EntryMatchLists ==
    {MkMatches(<<>>), MkMatches(<<69>>), MkMatches(<<75>>), MkMatches(<<85, 75>>),
     MkMatches(<<75, 100>>), MkMatches(<<100>>), MkMatches(<<69, 85>>)}

Responses ==
    UNION {{[i \in 1..n |-> [id |-> i, matches |-> ms[i]]] :
                ms \in [1..n -> EntryMatchLists]} : n \in 0..MaxEntries}

InitDisplay ==
    /\ data \in Responses
    /\ sortedMissingModels = <<>>
    /\ displayPc = "input"
    /\ IdleRender
    /\ IdleResolve
    /\ IdlePatch
    /\ IdleDownload
    /\ IdleCall

Display ==
    /\ displayPc = "input"
    /\ sortedMissingModels' = displayMissingModels(data)
    /\ displayPc' = "done"
    /\ UNCHANGED <<data, renderVars, resolveVars, patchVars, downloadVars, callVars>>

NextDisplay == Display

SpecDisplay == InitDisplay /\ [][NextDisplay]_vars

(***************************************************************************)
(* Paths and file names. A path is the sequence of its name segments and   *)
(* separators, so that split('/').pop().split('\\').pop() and              *)
(* toLowerCase() are computed and not assumed.                             *)
(***************************************************************************)
Lower(tok) ==
    CASE tok = "A" -> "a"
      [] tok = "B" -> "b"
      [] OTHER -> tok

\* String.prototype.toLowerCase
ToLowerCase(path) == [i \in 1..Len(path) |-> Lower(path[i])]

\* path.split(sep).pop(): what follows the last separator sep
SplitPop(path, sep) ==
    LET at == {i \in 1..Len(path) : path[i] = sep}
    IN  SubSeq(path, MaxOf(at \cup {0}) + 1, Len(path))

\* original_path?.split('/').pop()?.split('\\').pop() || ''
Basename(path) == SplitPop(SplitPop(path, "/"), "\\")

PathA == <<"dir", "/", "A">>

PathA2 == <<"lora", "\\", "a">>

PathB == <<"B">>

PathOtherA == <<"other", "/", "A">>

FileA == <<"models", "/", "A">>

FileA85 == <<"models", "/", "old", "/", "a">>

FileB == <<"models", "/", "B">>

FileA2 == <<"models", "/", "A2">>

\* One candidate of an analyze response.
Match(conf, path) ==
    [confidence |-> conf, filename |-> Basename(path),
     model |-> [path |-> path, filename |-> Basename(path)]]

(***************************************************************************)
(* The graph: the model-path widgets of the workflow. References 1 and 2   *)
(* are top-level nodes, 3 is a node of a subgraph definition with the same *)
(* node id and widget index as 1, 4 is another top-level node.             *)
(***************************************************************************)
RefIds == {1, 2, 3, 4}

NoSubgraph == "null"

RefInfo(r) ==
    CASE r = 1 -> [node_id |-> 1, widget_index |-> 0, subgraph_id |-> NoSubgraph,
                   is_top_level |-> TRUE, category |-> "checkpoints"]
      [] r = 2 -> [node_id |-> 2, widget_index |-> 0, subgraph_id |-> NoSubgraph,
                   is_top_level |-> TRUE, category |-> "checkpoints"]
      [] r = 3 -> [node_id |-> 1, widget_index |-> 0, subgraph_id |-> "sg",
                   is_top_level |-> FALSE, category |-> "checkpoints"]
      [] r = 4 -> [node_id |-> 3, widget_index |-> 1, subgraph_id |-> NoSubgraph,
                   is_top_level |-> TRUE, category |-> "loras"]

\* The reference a resolution or an entry names.
RefOf(x) ==
    CHOOSE r \in RefIds :
        /\ RefInfo(r).node_id = x.node_id
        /\ RefInfo(r).widget_index = x.widget_index
        /\ RefInfo(r).subgraph_id = x.subgraph_id

Workflows ==
    {[r \in RefIds |-> IF r \in {1, 2, 3} THEN PathA ELSE PathB],
     [r \in RefIds |-> IF r \in {1, 2} THEN PathA ELSE PathB],
     [r \in RefIds |-> IF r = 1 THEN PathA ELSE IF r = 2 THEN PathA2 ELSE PathB]}

MissingPaths == {PathA, PathA2, PathB, PathOtherA}

\* The candidates the local store yields for each missing path.
Stores ==
    {[p \in MissingPaths |->
        CASE p = PathA -> a
          [] p = PathA2 -> <<>>
          [] p = PathOtherA -> <<>>
          [] p = PathB -> b] :
     a \in {<<>>, <<Match(100, FileA)>>, <<Match(85, FileA85)>>,
            <<Match(85, FileA85), Match(100, FileA)>>},
     b \in {<<>>, <<Match(100, FileB)>>}}

(***************************************************************************)
(* The server side of analyze and resolve.                                 *)
(***************************************************************************)
\* case-fold and unify the separators
NormalizePath(path) ==
    [i \in 1..Len(path) |-> IF path[i] = "\\" THEN "/" ELSE Lower(path[i])]

\* analyze: one entry per normalized missing path, in the order of its first
\* reference, carrying the first reference's fields, every reference that
\* shares the path and the candidates of the store.
Analyze(workflow, st) ==
    LET missingRefs == {r \in RefIds : workflow[r] \in MissingPaths}
        firsts == {r \in missingRefs :
                     \A q \in missingRefs :
                        NormalizePath(workflow[q]) = NormalizePath(workflow[r]) => r <= q}
        sharing(r) == {q \in missingRefs :
                        NormalizePath(workflow[q]) = NormalizePath(workflow[r])}
        asSeq(S) ==
            LET G[T \in SUBSET S] ==
                    IF T = {} THEN <<>>
                    ELSE LET x == CHOOSE y \in T : \A z \in T : y <= z
                         IN  <<x>> \o G[T \ {x}]
            IN  G[S]
        entry(r) ==
            [original_path |-> workflow[r],
             node_id |-> RefInfo(r).node_id,
             widget_index |-> RefInfo(r).widget_index,
             subgraph_id |-> RefInfo(r).subgraph_id,
             is_top_level |-> RefInfo(r).is_top_level,
             category |-> RefInfo(r).category,
             all_node_refs |-> [k \in 1..Cardinality(sharing(r)) |->
                                    RefInfo(asSeq(sharing(r))[k])],
             matches |-> st[workflow[r]]]
    IN  [k \in 1..Cardinality(firsts) |-> entry(asSeq(firsts)[k])]

\* resolve: the workflow of the request with every resolution applied
ApplyResolutions(workflow, resolutions) ==
    [r \in RefIds |->
        LET hits == {k \in 1..Len(resolutions) : RefOf(resolutions[k]) = r}
        IN  IF hits = {} THEN workflow[r]
            ELSE resolutions[MaxOf(hits)].resolved_path]

(***************************************************************************)
(* The client side: the resolutions each flow builds.                      *)
(***************************************************************************)
Resolution(ref, category, model) ==
    [node_id |-> ref.node_id,
     widget_index |-> ref.widget_index,
     resolved_path |-> model.path,
     category |-> category,
     resolved_model |-> model,
     subgraph_id |-> ref.subgraph_id,
     is_top_level |-> ref.is_top_level]

FirstReferenceOnly(missing, resolvedModel) ==
    <<Resolution(missing, missing.category, resolvedModel)>>

\* every resolution with the category of the entry instead of its reference's
EntryCategoryForAll(missing, resolvedModel) ==
    LET nodeRefs == missing.all_node_refs
    IN  [k \in 1..Len(nodeRefs) |->
            Resolution(nodeRefs[k], missing.category, resolvedModel)]

\* resolveModel: nodeRefs.map(ref => ({...}))
ResolveModelResolutions(missing, resolvedModel) ==
    LET nodeRefs == missing.all_node_refs
    IN  [k \in 1..Len(nodeRefs) |->
            Resolution(nodeRefs[k], nodeRefs[k].category, resolvedModel)]

\* Array.prototype.find over the candidates: <<>> or the first hit
FirstPerfect(ms) ==
    LET hits == {k \in 1..Len(ms) : ms[k].confidence = PerfectConfidence}
    IN  IF hits = {} THEN <<>> ELSE <<ms[CHOOSE k \in hits : \A j \in hits : k <= j]>>

\* autoResolve100Percent: the perfect match picked for every entry that has
\* one, in the order of the entries
PerfectPicks(missingModels) ==
    LET G[k \in 0..Len(missingModels)] ==
            IF k = 0 THEN <<>>
            ELSE LET pm == FirstPerfect(missingModels[k].matches)
                 IN  IF pm # <<>>
                     THEN G[k - 1] \o <<[missing |-> missingModels[k], match |-> pm[1]]>>
                     ELSE G[k - 1]
    IN  G[Len(missingModels)]

\* autoResolve100Percent: one resolution per pick, for the entry's own
\* node_id, widget_index and subgraph_id
AutoResolveResolutions(missingModels) ==
    LET picks == PerfectPicks(missingModels)
    IN  [k \in 1..Len(picks) |->
            Resolution(picks[k].missing, picks[k].missing.category, picks[k].match.model)]

\* autoResolveAfterDownload: missingModels.find by the lower-cased basename
TargetMissing(missingModels, downloadedFilename) ==
    LET hits == {k \in 1..Len(missingModels) :
                    ToLowerCase(Basename(missingModels[k].original_path))
                        = ToLowerCase(downloadedFilename)}
    IN  IF hits = {} THEN <<>>
        ELSE <<missingModels[CHOOSE k \in hits : \A j \in hits : k <= j]>>

\* m.confidence === 100 || matchFilename.toLowerCase() === downloadedFilename.toLowerCase()
IsDownloadedMatch(m, downloadedFilename) ==
    \/ m.confidence = PerfectConfidence
    \/ ToLowerCase(m.filename) = ToLowerCase(downloadedFilename)

\* autoResolveAfterDownload: matches.find
DownloadedMatch(ms, downloadedFilename) ==
    LET hits == {k \in 1..Len(ms) : IsDownloadedMatch(ms[k], downloadedFilename)}
    IN  IF hits = {} THEN <<>> ELSE <<ms[CHOOSE k \in hits : \A j \in hits : k <= j]>>

(***************************************************************************)
(* The resolve flows. Every flow is one call of resolveModel,              *)
(* autoResolve100Percent or autoResolveAfterDownload; a step is the code   *)
(* that runs between two awaits.                                           *)
(***************************************************************************)
\* two calls can be in progress at once
FlowIds == {1, 2}

Filenames == {<<"A">>, <<"B">>}

ResolveOutcomes == {"success", "unsuccessful", "http_error", "exception"}

NoFlow ==
    [kind |-> "none", pc |-> "idle", workflow |-> <<>>, filename |-> <<>>,
     missing |-> <<>>, picks |-> <<>>, analysis |-> <<>>, resolutions |-> <<>>,
     requests |-> 0, outcome |-> "none", reload |-> <<>>, reloads |-> 0]

\* getCurrentWorkflow: app.graph.serialize()
getCurrentWorkflow == graph

AcceptedWheneverAnswered(outcome) == outcome \in {"success", "unsuccessful"}

\* if (data.success)
Accepted(outcome) == outcome = "success"

\* whether the response handler goes on to updateWorkflowInComfyUI
Installs(outcome) == Accepted(outcome)

InitResolve ==
    /\ graph \in Workflows
    /\ store \in Stores
    /\ displayed = displayMissingModels(Analyze(graph, store))
    /\ flows = [f \in FlowIds |-> NoFlow]
    /\ IdleRender
    /\ IdleDisplay
    /\ IdlePatch
    /\ IdleDownload
    /\ IdleCall

\* resolveModel up to the await of the resolve request: the user clicks the
\* Link button of row j of the displayed entry k.
ResolveModelClick(f, k, j) ==
    /\ flows[f].kind = "none"
    /\ k \in 1..Len(displayed)
    /\ j \in 1..Len(renderMissingModel(displayed[k].matches).rows)
    /\ LET missing == displayed[k]
           match == renderMissingModel(missing.matches).rows[j]
       IN  flows' = [flows EXCEPT ![f] =
                [NoFlow EXCEPT
                    !.kind = "resolveModel",
                    !.pc = "resolve",
                    !.workflow = getCurrentWorkflow,
                    !.missing = <<missing>>,
                    !.picks = <<[missing |-> missing, match |-> match]>>,
                    !.resolutions = ResolveModelResolutions(missing, match.model),
                    !.requests = 1]]
    /\ UNCHANGED <<graph, store, displayed, renderVars, displayVars, patchVars, downloadVars, callVars>>

\* resolveModel from the response of the resolve request on
ResolveModelResponse(f, outcome) ==
    /\ flows[f].kind = "resolveModel"
    /\ flows[f].pc = "resolve"
    /\ IF Installs(outcome)
       THEN LET patched == ApplyResolutions(flows[f].workflow, flows[f].resolutions)
            IN  /\ graph' = patched
                /\ flows' = [flows EXCEPT ![f].pc = "reload", ![f].outcome = outcome,
                                          ![f].reload = patched, ![f].reloads = @ + 1]
       ELSE /\ graph' = graph
            /\ flows' = [flows EXCEPT ![f].pc = "done", ![f].outcome = outcome]
    /\ UNCHANGED <<store, displayed, renderVars, displayVars, patchVars, downloadVars, callVars>>

\* autoResolve100Percent up to the await of the analyze request
AutoResolveClick(f) ==
    /\ flows[f].kind = "none"
    /\ flows' = [flows EXCEPT ![f] =
            [NoFlow EXCEPT !.kind = "autoResolve100Percent", !.pc = "analyze",
                           !.workflow = getCurrentWorkflow]]
    /\ UNCHANGED <<graph, store, displayed, renderVars, displayVars, patchVars, downloadVars, callVars>>

\* autoResolve100Percent from the analyze response to the resolve request
AutoResolveAnalyzed(f, ok) ==
    /\ flows[f].kind = "autoResolve100Percent"
    /\ flows[f].pc = "analyze"
    /\ IF ~ok
       THEN flows' = [flows EXCEPT ![f].pc = "done", ![f].outcome = "analyze_failed"]
       ELSE LET missingModels == Analyze(flows[f].workflow, store)
                resolutions == AutoResolveResolutions(missingModels)
            IN  IF Len(resolutions) = 0
                THEN flows' = [flows EXCEPT ![f].pc = "done", ![f].outcome = "nothing",
                                            ![f].analysis = missingModels]
                ELSE flows' = [flows EXCEPT ![f].pc = "resolve",
                                            ![f].analysis = missingModels,
                                            ![f].picks = PerfectPicks(missingModels),
                                            ![f].resolutions = resolutions,
                                            ![f].requests = 1]
    /\ UNCHANGED <<graph, store, displayed, renderVars, displayVars, patchVars, downloadVars, callVars>>

\* autoResolve100Percent from the response of the resolve request on
AutoResolveResponse(f, outcome) ==
    /\ flows[f].kind = "autoResolve100Percent"
    /\ flows[f].pc = "resolve"
    /\ IF Installs(outcome)
       THEN LET patched == ApplyResolutions(flows[f].workflow, flows[f].resolutions)
            IN  /\ graph' = patched
                /\ flows' = [flows EXCEPT ![f].pc = "reload", ![f].outcome = outcome,
                                          ![f].reload = patched, ![f].reloads = @ + 1]
       ELSE /\ graph' = graph
            /\ flows' = [flows EXCEPT ![f].pc = "done", ![f].outcome = outcome]
    /\ UNCHANGED <<store, displayed, renderVars, displayVars, patchVars, downloadVars, callVars>>

\* a run that ends without calling loadWorkflowData
ReturnsWithoutReload(flow, outcome) == [flow EXCEPT !.pc = "done", !.outcome = outcome]

\* autoResolveAfterDownload: await this.loadWorkflowData() with the current
\* workflow, on the paths that have not resolved and in the catch block
ReloadCurrent(flow, outcome) ==
    [flow EXCEPT !.pc = "reload", !.outcome = outcome,
                 !.reload = getCurrentWorkflow, !.reloads = @ + 1]

\* autoResolveAfterDownload up to its first await: the timer set by the poll
\* that saw the download completed fires. Without a current workflow
\* (serialized is FALSE) the call is loadWorkflowData, which shows 'No
\* workflow loaded' and returns; otherwise the analyze request is sent.
AfterDownloadStart(f, downloadedFilename, serialized) ==
    /\ flows[f].kind = "none"
    /\ downloadedFilename \in Filenames
    /\ IF serialized
       THEN /\ flows' = [flows EXCEPT ![f] =
                    [NoFlow EXCEPT !.kind = "autoResolveAfterDownload", !.pc = "analyze",
                                   !.workflow = getCurrentWorkflow,
                                   !.filename = downloadedFilename]]
            /\ displayed' = displayed
       ELSE /\ flows' = [flows EXCEPT ![f] =
                    [NoFlow EXCEPT !.kind = "autoResolveAfterDownload", !.pc = "done",
                                   !.outcome = "no_workflow",
                                   !.filename = downloadedFilename,
                                   !.reloads = 1]]
            /\ displayed' = <<>>
    /\ UNCHANGED <<graph, store, renderVars, displayVars, patchVars, downloadVars, callVars>>

\* autoResolveAfterDownload from the analyze response to the next await
AfterDownloadAnalyzed(f, ok) ==
    /\ flows[f].kind = "autoResolveAfterDownload"
    /\ flows[f].pc = "analyze"
    /\ LET missingModels == Analyze(flows[f].workflow, store)
           targetMissing == TargetMissing(missingModels, flows[f].filename)
           perfectMatch ==
               IF targetMissing = <<>> THEN <<>>
               ELSE DownloadedMatch(targetMissing[1].matches, flows[f].filename)
       IN  IF ~ok
           THEN flows' = [flows EXCEPT ![f] = ReloadCurrent(@, "analyze_failed")]
           ELSE IF perfectMatch = <<>>
           THEN flows' = [flows EXCEPT ![f] =
                    ReloadCurrent([@ EXCEPT !.analysis = missingModels,
                                            !.missing = targetMissing], "nothing")]
           ELSE flows' = [flows EXCEPT
                    ![f].pc = "resolve",
                    ![f].analysis = missingModels,
                    ![f].missing = targetMissing,
                    ![f].picks = <<[missing |-> targetMissing[1], match |-> perfectMatch[1]]>>,
                    ![f].resolutions =
                        ResolveModelResolutions(targetMissing[1], perfectMatch[1].model),
                    ![f].requests = 1]
    /\ UNCHANGED <<graph, store, displayed, renderVars, displayVars, patchVars, downloadVars, callVars>>

\* autoResolveAfterDownload from the response of the resolve request on
AfterDownloadResponse(f, outcome) ==
    /\ flows[f].kind = "autoResolveAfterDownload"
    /\ flows[f].pc = "resolve"
    /\ IF Installs(outcome)
       THEN LET patched == ApplyResolutions(flows[f].workflow, flows[f].resolutions)
            IN  /\ graph' = patched
                /\ flows' = [flows EXCEPT ![f].pc = "reload", ![f].outcome = outcome,
                                          ![f].reload = patched, ![f].reloads = @ + 1]
       ELSE /\ graph' = graph
            /\ flows' = [flows EXCEPT ![f] = ReloadCurrent(@, outcome)]
    /\ UNCHANGED <<store, displayed, renderVars, displayVars, patchVars, downloadVars, callVars>>

\* loadWorkflowData from the analyze response on: the dialog lists the
\* entries of the workflow it was called with, or an error message.
LoadWorkflowDataResponse(f, ok) ==
    /\ flows[f].pc = "reload"
    /\ displayed' = IF ok THEN displayMissingModels(Analyze(flows[f].reload, store))
                    ELSE <<>>
    /\ flows' = [flows EXCEPT ![f].pc = "done"]
    /\ UNCHANGED <<graph, store, renderVars, displayVars, patchVars, downloadVars, callVars>>

NextResolve ==
    \/ \E f \in FlowIds, k \in 1..MaxEntries, j \in 1..MaxShown : ResolveModelClick(f, k, j)
    \/ \E f \in FlowIds, outcome \in ResolveOutcomes : ResolveModelResponse(f, outcome)
    \/ \E f \in FlowIds : AutoResolveClick(f)
    \/ \E f \in FlowIds, ok \in BOOLEAN : AutoResolveAnalyzed(f, ok)
    \/ \E f \in FlowIds, outcome \in ResolveOutcomes : AutoResolveResponse(f, outcome)
    \/ \E f \in FlowIds, fn \in Filenames, serialized \in BOOLEAN :
            AfterDownloadStart(f, fn, serialized)
    \/ \E f \in FlowIds, ok \in BOOLEAN : AfterDownloadAnalyzed(f, ok)
    \/ \E f \in FlowIds, outcome \in ResolveOutcomes : AfterDownloadResponse(f, outcome)
    \/ \E f \in FlowIds, ok \in BOOLEAN : LoadWorkflowDataResponse(f, ok)

SpecResolve == InitResolve /\ [][NextResolve]_vars

\* every request is answered and every timer fires: a call that can take
\* its next step takes it
SpecResolveFair == SpecResolve /\ WF_vars(NextResolve)

(***************************************************************************)
(* updateNodesDirectly: the resolutions are written into the live nodes.   *)
(* A live node has a widgets array, or only a widgets_values array, or     *)
(* neither.                                                                *)
(***************************************************************************)
MaxBatch == 2

OldPath == <<"dir", "/", "A">>

LiveNode(kind) ==
    CASE kind = "widgets" ->
            [widgets |-> <<OldPath, OldPath>>, hasValues |-> FALSE, widgets_values |-> <<>>]
      [] kind = "values" ->
            [widgets |-> <<>>, hasValues |-> TRUE, widgets_values |-> <<OldPath, OldPath>>]
      [] kind = "bare" ->
            [widgets |-> <<>>, hasValues |-> FALSE, widgets_values |-> <<>>]

LiveGraphs ==
    {[n \in {1, 2} |-> LiveNode(IF n = 1 THEN k1 ELSE k2)] :
        k1 \in {"widgets", "values"}, k2 \in {"widgets", "bare"}}

BatchResolutions ==
    {[node_id |-> n, widget_index |-> w, resolved_path |-> p] :
        n \in {1, 2, 9}, w \in {0, 1}, p \in {FileA}}

Batches == UNION {[1..n -> BatchResolutions] : n \in 0..MaxBatch}

\* arr[i] = v on a JavaScript array (i counted from 0)
AssignAt(arr, i, v) ==
    [k \in 1..(IF Len(arr) > i + 1 THEN Len(arr) ELSE i + 1) |->
        IF k = i + 1 THEN v ELSE IF k <= Len(arr) THEN arr[k] ELSE <<"empty">>]

\* the body of the loop for a node that was found
UpdateNode(node, resolution) ==
    IF resolution.widget_index + 1 \in 1..Len(node.widgets)
    THEN [node EXCEPT !.widgets[resolution.widget_index + 1] = resolution.resolved_path]
    ELSE IF node.hasValues
    THEN [node EXCEPT !.widgets_values =
            AssignAt(node.widgets_values, resolution.widget_index, resolution.resolved_path)]
    ELSE node

\* for (const resolution of resolutions): a resolution whose node is not
\* found is skipped (continue), the others are applied
updateNodesDirectly(nodes, resolutions) ==
    LET G[k \in 0..Len(resolutions)] ==
            IF k = 0 THEN nodes
            ELSE IF resolutions[k].node_id \notin DOMAIN G[k - 1]
            THEN G[k - 1]
            ELSE [G[k - 1] EXCEPT ![resolutions[k].node_id] =
                        UpdateNode(G[k - 1][resolutions[k].node_id], resolutions[k])]
    IN  G[Len(resolutions)]

InitPatch ==
    /\ liveNodes \in LiveGraphs
    /\ batch \in Batches
    /\ patchPc = "input"
    /\ IdleRender
    /\ IdleDisplay
    /\ IdleResolve
    /\ IdleDownload
    /\ IdleCall

UpdateNodes ==
    /\ patchPc = "input"
    /\ liveNodes' = updateNodesDirectly(liveNodes, batch)
    /\ patchPc' = "done"
    /\ UNCHANGED <<batch, renderVars, displayVars, resolveVars, downloadVars, callVars>>

NextPatch == UpdateNodes

SpecPatch == InitPatch /\ [][NextPatch]_vars

(***************************************************************************)
(* autoResolveAfterDownload(missing, downloadedFilename) as one call, on a *)
(* graph that does not change while it runs: what it submits for a         *)
(* download that was started for the entry missing.                        *)
(***************************************************************************)
\* graphs in which two entries have the same basename, or one entry has it
AfterDownloadWorkflows ==
    {[r \in RefIds |-> IF r = 1 THEN PathOtherA ELSE IF r = 4 THEN PathB ELSE PathA],
     [r \in RefIds |-> IF r = 3 THEN PathOtherA ELSE IF r = 4 THEN PathB ELSE PathA],
     [r \in RefIds |-> IF r = 4 THEN PathB ELSE PathA]}

\* the candidates after the download: paths of one basename have the same
AfterDownloadStores ==
    {[p \in MissingPaths |-> IF p = PathB THEN b ELSE a] :
     a \in {<<>>, <<Match(100, FileA)>>, <<Match(90, FileA2)>>,
            <<Match(90, FileA2), Match(100, FileA)>>},
     b \in {<<>>, <<Match(100, FileB)>>}}

\* source.filename || originalFilename: the name of the download source, or
\* the basename of the entry's path
DownloadFilenames(missing) == {Basename(missing.original_path), Basename(FileA2)}

\* the resolutions autoResolveAfterDownload submits, <<>> when it submits none
autoResolveAfterDownload(workflow, st, downloadedFilename) ==
    LET missingModels == Analyze(workflow, st)
        targetMissing == TargetMissing(missingModels, downloadedFilename)
        perfectMatch ==
            IF targetMissing = <<>> THEN <<>>
            ELSE DownloadedMatch(targetMissing[1].matches, downloadedFilename)
    IN  IF perfectMatch = <<>> THEN <<>>
        ELSE ResolveModelResolutions(targetMissing[1], perfectMatch[1].model)

InitAfterDownload ==
    /\ graph \in AfterDownloadWorkflows
    /\ store \in AfterDownloadStores
    /\ displayed = <<>>
    /\ flows = <<>>
    /\ \E k \in 1..MaxEntries :
          /\ k <= Len(Analyze(graph, store))
          /\ \E fn \in DownloadFilenames(Analyze(graph, store)[k]) :
                completed = [missing |-> Analyze(graph, store)[k], filename |-> fn]
    /\ submitted = <<>>
    /\ progress = <<>>
    /\ progressText = <<>>
    /\ toDownload = <<>>
    /\ cancelAll = NoCancelAll
    /\ IdleUi
    /\ callPc = "input"
    /\ IdleRender
    /\ IdleDisplay
    /\ IdlePatch
    /\ IdleDownload

AutoResolveAfterDownload ==
    /\ callPc = "input"
    /\ submitted' = autoResolveAfterDownload(getCurrentWorkflow, store, completed.filename)
    /\ callPc' = "done"
    /\ UNCHANGED <<completed, progress, progressText, toDownload, cancelAll, uiVars,
                   renderVars, displayVars, resolveVars, patchVars, downloadVars>>

NextAfterDownload == AutoResolveAfterDownload

SpecAfterDownload == InitAfterDownload /\ [][NextAfterDownload]_vars

(***************************************************************************)
(* Downloads: downloadModel, pollDownloadProgress, cancelDownload and the  *)
(* server's jobs. A step is the code that runs between two awaits or       *)
(* timers.                                                                 *)
(***************************************************************************)
MaxDownloads == 2

DownloadIds == 1..MaxDownloads

\* the displayed entries that have a download source
DownloadEntries == {"E1", "E2"}

TerminalStatuses == {"completed", "error", "cancelled"}

RunningStatuses == {"starting", "downloading"}

\* what a poll can come back with: a status of the job, a status the
\* client does not know, or no answer (non-OK response, exception)
PollResults == RunningStatuses \cup TerminalStatuses \cup {"unknown", "failed"}

EvictsOnAnythingElse(result) == result \notin RunningStatuses

EvictsOnFailedPollOnly(result) == result = "failed"

\* the branches of pollDownloadProgress that delete activeDownloads[id]
Evicts(result) == result \in TerminalStatuses \cup {"failed"}

Tracked == DOMAIN activeDownloads

\* an eviction that leaves the entry in place
UntrackNothing(id) == activeDownloads

\* delete this.activeDownloads[id]
Untrack(id) == [d \in Tracked \ {id} |-> activeDownloads[d]]

\* what a progress area shows; id is the download whose progress it is (0:
\* none), listeners the downloads its Cancel button calls cancelDownload for
Shows(what, id, listeners) == [shows |-> what, id |-> id, listeners |-> listeners]

\* progressDiv.style.display is not yet 'block'
Hidden == Shows("hidden", 0, {})

\* the bar with the cancel-download-btn-pending button and 'Connecting...'
Connecting == Shows("connecting", 0, {})

\* renderStatusMessage(...): a message, no button
StatusMessage == Shows("status", 0, {})

\* the contents that have a Cancel button
WithCancelButton == {"connecting", "progress", "downloading"}

\* progressDiv?.querySelector('.cancel-download-btn-pending') and
\* addEventListener: the pending button, if it is still there, now also
\* cancels downloadId
AttachToPending(div, downloadId) ==
    IF div.shows = "connecting"
    THEN [div EXCEPT !.listeners = @ \cup {downloadId}]
    ELSE div

\* what pollDownloadProgress writes into the progress area
ShowPoll(div, d, result) ==
    IF result \in RunningStatuses THEN Shows("progress", d, {d})
    ELSE IF result \in TerminalStatuses \cup {"failed"} THEN StatusMessage
    ELSE div

ButtonStateIgnoringCount(activeCount) == [mode |-> "download_all", n |-> 0]

\* updateDownloadAllButtonState: 'Cancel All (n)' or 'Download All Missing'
updateDownloadAllButtonState(activeCount) ==
    IF activeCount > 0
    THEN [mode |-> "cancel_all", n |-> activeCount]
    ELSE [mode |-> "download_all", n |-> 0]

InitDownload ==
    /\ activeDownloads = <<>>
    /\ jobs = [d \in DownloadIds |-> "absent"]
    /\ starting = [e \in DownloadEntries |-> 0]
    /\ inflight = [d \in DownloadIds |-> 0]
    /\ timers = [d \in DownloadIds |-> 0]
    /\ lastPoll = [d \in DownloadIds |-> "none"]
    /\ cancelAsked = {}
    /\ handled = [d \in DownloadIds |-> [terminal |-> 0, autoResolve |-> 0]]
    /\ startedBy = [e \in DownloadEntries |-> "nothing"]
    /\ footer = updateDownloadAllButtonState(0)
    /\ progressDiv = [e \in DownloadEntries |-> Hidden]
    /\ IdleRender
    /\ IdleDisplay
    /\ IdleResolve
    /\ IdlePatch
    /\ IdleCall

Requested == starting["E1"] + starting["E2"]

Created == Cardinality({d \in DownloadIds : jobs[d] # "absent"})

\* downloadModel up to the await of the start request: the entry's Download
\* button is clicked; it is disabled from the click until its download
\* has ended and the entry is shown again
DownloadModelClick(e) ==
    /\ Requested + Created < MaxDownloads
    /\ starting[e] = 0
    /\ \A d \in Tracked : activeDownloads[d].missing # e
    /\ starting' = [starting EXCEPT ![e] = @ + 1]
    /\ startedBy' = [startedBy EXCEPT ![e] = "click"]
    /\ progressDiv' = [progressDiv EXCEPT ![e] = Connecting]
    /\ UNCHANGED <<activeDownloads, jobs, inflight, timers, lastPoll, cancelAsked,
                   handled, footer,
                   renderVars, displayVars, resolveVars, patchVars, callVars>>

DownloadModelResponseRetrying(e, ok) ==
    /\ starting[e] > 0
    /\ ~ok
    /\ startedBy' = [startedBy EXCEPT ![e] = "retry"]
    /\ UNCHANGED <<starting, activeDownloads, jobs, inflight, timers, lastPoll,
                   cancelAsked, handled, footer, progressDiv,
                   renderVars, displayVars, resolveVars, patchVars, callVars>>

\* the first id the server has not used
NewDownloadId ==
    CHOOSE d \in DownloadIds :
        /\ jobs[d] = "absent"
        /\ \A c \in DownloadIds : jobs[c] = "absent" => d <= c

\* downloadModel and downloadFromSearch from the start response on: the id
\* is tracked, the footer button updated, the pending Cancel button given
\* its listener and the first poll sent; or the failure is shown. The two
\* differ in the button they relabel.
StartResponse(e, ok) ==
    IF ok
    THEN /\ jobs' = [jobs EXCEPT ![NewDownloadId] = "starting"]
         /\ activeDownloads' =
               [d \in Tracked \cup {NewDownloadId} |->
                   IF d = NewDownloadId THEN [missing |-> e]
                   ELSE activeDownloads[d]]
         /\ footer' = updateDownloadAllButtonState(Cardinality(Tracked \cup {NewDownloadId}))
         /\ progressDiv' = [progressDiv EXCEPT ![e] = AttachToPending(@, NewDownloadId)]
         /\ inflight' = [inflight EXCEPT ![NewDownloadId] = @ + 1]
    ELSE /\ progressDiv' = [progressDiv EXCEPT ![e] = StatusMessage]
         /\ UNCHANGED <<jobs, activeDownloads, inflight, footer>>

\* downloadModel from the start response on
DownloadModelResponse(e, ok) ==
    /\ starting[e] > 0
    /\ starting' = [starting EXCEPT ![e] = @ - 1]
    /\ StartResponse(e, ok)
    /\ UNCHANGED <<timers, lastPoll, cancelAsked, handled, startedBy,
                   renderVars, displayVars, resolveVars, patchVars, callVars>>

\* downloadFromSearch up to the await of the start request: a download
\* button of the entry's search results is clicked
DownloadFromSearchClick(e) ==
    /\ Requested + Created < MaxDownloads
    /\ starting' = [starting EXCEPT ![e] = @ + 1]
    /\ startedBy' = [startedBy EXCEPT ![e] = "click"]
    /\ progressDiv' = [progressDiv EXCEPT ![e] = Connecting]
    /\ UNCHANGED <<activeDownloads, jobs, inflight, timers, lastPoll,
                   cancelAsked, handled, footer,
                   renderVars, displayVars, resolveVars, patchVars, callVars>>

\* downloadFromSearch from the start response on
DownloadFromSearchResponse(e, ok) ==
    /\ starting[e] > 0
    /\ starting' = [starting EXCEPT ![e] = @ - 1]
    /\ StartResponse(e, ok)
    /\ UNCHANGED <<timers, lastPoll, cancelAsked, handled, startedBy,
                   renderVars, displayVars, resolveVars, patchVars, callVars>>

\* the server's job moves on
JobProgress(d) ==
    /\ jobs[d] \in RunningStatuses
    /\ \E next \in {"downloading", "completed", "error"} :
          /\ next # jobs[d]
          /\ jobs' = [jobs EXCEPT ![d] = IF d \in cancelAsked THEN "cancelled" ELSE next]
    /\ UNCHANGED <<activeDownloads, starting, inflight, timers, lastPoll, cancelAsked,
                   handled, startedBy, footer, progressDiv,
                   renderVars, displayVars, resolveVars, patchVars, callVars>>

\* the terminal branches of pollDownloadProgress: the notification, and for
\* completed the setTimeout of autoResolveAfterDownload
HandleTerminal(h, result) ==
    IF result \in TerminalStatuses
    THEN [terminal |-> h.terminal + 1,
          autoResolve |-> h.autoResolve + (IF result = "completed" THEN 1 ELSE 0)]
    ELSE h

\* pollDownloadProgress from the progress response on
PollResponse(d, result) ==
    /\ inflight[d] > 0
    /\ result \in {jobs[d], "unknown", "failed"}
    /\ inflight' = [inflight EXCEPT ![d] = @ - 1]
    /\ lastPoll' = [lastPoll EXCEPT ![d] = result]
    /\ handled' = [handled EXCEPT ![d] = HandleTerminal(@, result)]
    /\ progressDiv' = [progressDiv EXCEPT ![activeDownloads[d].missing] =
                            ShowPoll(@, d, result)]
    /\ IF Evicts(result)
       THEN /\ activeDownloads' = Untrack(d)
            /\ footer' = updateDownloadAllButtonState(Cardinality(Tracked \ {d}))
            /\ UNCHANGED timers
       ELSE /\ timers' = [timers EXCEPT ![d] = @ + 1]
            /\ UNCHANGED <<activeDownloads, footer>>
    /\ UNCHANGED <<jobs, starting, cancelAsked, startedBy,
                   renderVars, displayVars, resolveVars, patchVars, callVars>>

\* the timer fires: pollDownloadProgress up to the await of the request
PollTimer(d) ==
    /\ timers[d] > 0
    /\ timers' = [timers EXCEPT ![d] = @ - 1]
    /\ IF d \in Tracked
       THEN inflight' = [inflight EXCEPT ![d] = @ + 1]
       ELSE UNCHANGED inflight
    /\ UNCHANGED <<activeDownloads, jobs, starting, lastPoll, cancelAsked,
                   handled, startedBy, footer, progressDiv,
                   renderVars, displayVars, resolveVars, patchVars, callVars>>

\* cancelDownload: a Cancel button that has a listener for d is clicked; the
\* server takes the request or not, and on success the progress area of d,
\* if d is still tracked, shows 'Cancelling download...'
CancelDownload(d, ok) ==
    /\ d \in Tracked
    /\ d \notin cancelAsked
    /\ \E e \in DownloadEntries :
          progressDiv[e].shows \in WithCancelButton /\ d \in progressDiv[e].listeners
    /\ cancelAsked' = IF ok THEN cancelAsked \cup {d} ELSE cancelAsked
    /\ progressDiv' = IF ok
                      THEN [progressDiv EXCEPT ![activeDownloads[d].missing] =
                                Shows("cancelling", 0, {})]
                      ELSE progressDiv
    /\ UNCHANGED <<activeDownloads, jobs, starting, inflight, timers, lastPoll,
                   handled, startedBy, footer,
                   renderVars, displayVars, resolveVars, patchVars, callVars>>

\* loadWorkflowData while no start request is pending: displayMissingModels
\* rebuilds the entries and reconnectActiveDownloads gives every tracked
\* download, in the order of the table, the progress area of its entry
ReconnectActiveDownloads ==
    /\ Requested = 0
    /\ progressDiv' =
          [e \in DownloadEntries |->
              LET ds == {d \in Tracked : activeDownloads[d].missing = e}
              IN  IF ds = {} THEN Hidden
                  ELSE Shows("downloading", MaxOf(ds), {MaxOf(ds)})]
    /\ progressDiv' # progressDiv
    /\ UNCHANGED <<activeDownloads, jobs, starting, inflight, timers, lastPoll,
                   cancelAsked, handled, startedBy, footer,
                   renderVars, displayVars, resolveVars, patchVars, callVars>>

NextDownload ==
    \/ \E e \in DownloadEntries : DownloadModelClick(e)
    \/ \E e \in DownloadEntries, ok \in BOOLEAN : DownloadModelResponse(e, ok)
    \/ \E d \in DownloadIds : JobProgress(d)
    \/ \E d \in DownloadIds, result \in PollResults : PollResponse(d, result)
    \/ \E d \in DownloadIds : PollTimer(d)
    \/ \E d \in DownloadIds, ok \in BOOLEAN : CancelDownload(d, ok)
    \/ \E e \in DownloadEntries : DownloadFromSearchClick(e)
    \/ \E e \in DownloadEntries, ok \in BOOLEAN : DownloadFromSearchResponse(e, ok)
    \/ ReconnectActiveDownloads

SpecDownload == InitDownload /\ [][NextDownload]_vars

(***************************************************************************)
(* Cancel All: handleDownloadAllClick and cancelAllDownloads, next to the  *)
(* downloads they cancel.                                                  *)
(***************************************************************************)
\* Object.keys(this.activeDownloads): the tracked ids in the order they were
\* added
TrackedIds ==
    LET G[T \in SUBSET Tracked] ==
            IF T = {} THEN <<>>
            ELSE LET x == CHOOSE y \in T : \A z \in T : y <= z
                 IN  <<x>> \o G[T \ {x}]
    IN  G[Tracked]

\* a loop that ends at the first cancel request that fails
StopsAtFailure(c, ok) ==
    LET k == Len(c.sent)
        failed == IF ok THEN c.failed ELSE c.failed \cup {c.sent[k]}
    IN  IF ok /\ k < Len(c.downloadIds)
        THEN [c EXCEPT !.sent = Append(@, c.downloadIds[k + 1]), !.failed = failed]
        ELSE [c EXCEPT !.pc = "done", !.failed = failed]

\* the for loop of cancelAllDownloads after the await of a request: the catch
\* logs a failure, and the loop goes on to the next id or ends
ContinueCancelAll(c, ok) ==
    LET k == Len(c.sent)
        failed == IF ok THEN c.failed ELSE c.failed \cup {c.sent[k]}
    IN  IF k < Len(c.downloadIds)
        THEN [c EXCEPT !.sent = Append(@, c.downloadIds[k + 1]), !.failed = failed]
        ELSE [c EXCEPT !.pc = "done", !.failed = failed]

\* handleDownloadAllClick with downloads tracked, and cancelAllDownloads up
\* to the await of the first cancel request
CancelAllClick ==
    /\ cancelAll.pc # "request"
    /\ Cardinality(Tracked) > 0
    /\ cancelAll' = [pc |-> "request", downloadIds |-> TrackedIds,
                     sent |-> <<TrackedIds[1]>>, failed |-> {}]
    /\ UNCHANGED <<completed, submitted, progress, progressText, toDownload, callPc, uiVars,
                   downloadVars, renderVars, displayVars, resolveVars, patchVars>>

\* cancelAllDownloads from the answer to a cancel request, or its failure,
\* to the next await or the end
CancelAllResponse(ok) ==
    /\ cancelAll.pc = "request"
    /\ cancelAsked' = IF ok THEN cancelAsked \cup {cancelAll.sent[Len(cancelAll.sent)]}
                      ELSE cancelAsked
    /\ cancelAll' = ContinueCancelAll(cancelAll, ok)
    /\ UNCHANGED <<activeDownloads, jobs, starting, inflight, timers, lastPoll,
                   handled, startedBy, footer, progressDiv,
                   completed, submitted, progress, progressText, toDownload, callPc, uiVars,
                   renderVars, displayVars, resolveVars, patchVars>>

NextCancelAll ==
    \/ \E e \in DownloadEntries : DownloadModelClick(e)
    \/ \E e \in DownloadEntries, ok \in BOOLEAN : DownloadModelResponse(e, ok)
    \/ \E d \in DownloadIds : JobProgress(d)
    \/ \E d \in DownloadIds, result \in PollResults : PollResponse(d, result)
    \/ \E d \in DownloadIds : PollTimer(d)
    \/ \E d \in DownloadIds, ok \in BOOLEAN : CancelDownload(d, ok)
    \/ CancelAllClick
    \/ \E ok \in BOOLEAN : CancelAllResponse(ok)

SpecCancelAll == InitDownload /\ [][NextCancelAll]_vars

(***************************************************************************)
(* The progress line pollDownloadProgress writes for a download that is    *)
(* starting or downloading.                                                *)
(***************************************************************************)
\* a field the progress snapshot does not carry (undefined)
Absent == -1

\* x || 0
OrZero(x) == IF x = Absent THEN 0 ELSE x

Pow1024(i) == IF i = 0 THEN 1 ELSE IF i = 1 THEN 1024 ELSE IF i = 2 THEN 1048576 ELSE 1073741824

\* formatBytes: the value in tenths (toFixed(1)) and the unit
formatBytes(bytes) ==
    IF bytes = 0 THEN [tenths |-> 0, unit |-> "B"]
    ELSE LET i == CHOOSE j \in 0..3 :
                      Pow1024(j) <= bytes /\ (j < 3 => bytes < Pow1024(j + 1))
         IN  [tenths |-> (bytes * 20 + Pow1024(i)) \div (2 * Pow1024(i)),
              unit |-> <<"B", "KB", "MB", "GB">>[i + 1]]

\* `${downloaded} / ${total} (${percent}%)` and `${speed}`: the parts of the
\* line, in order
ProgressText(p) ==
    <<[part |-> "downloaded", bytes |-> formatBytes(OrZero(p.downloaded)), number |-> 0],
      [part |-> "total", bytes |-> formatBytes(OrZero(p.total_size)), number |-> 0],
      [part |-> "percent", bytes |-> formatBytes(0), number |-> OrZero(p.progress)]>>
    \o (IF p.speed = Absent \/ p.speed = 0 THEN <<>>
        ELSE <<[part |-> "speed", bytes |-> formatBytes(p.speed), number |-> 0]>>)

ProgressSnapshots ==
    [status : RunningStatuses,
     downloaded : {Absent, 0, 512, 2048},
     total_size : {Absent, 4096},
     progress : {Absent, 0, 50},
     speed : {Absent, 1536}]

InitProgressText ==
    /\ progress \in ProgressSnapshots
    /\ progressText = <<>>
    /\ completed = <<>>
    /\ submitted = <<>>
    /\ toDownload = <<>>
    /\ cancelAll = NoCancelAll
    /\ IdleUi
    /\ callPc = "input"
    /\ IdleRender
    /\ IdleDisplay
    /\ IdleResolve
    /\ IdlePatch
    /\ IdleDownload

\* the downloading / starting branch of pollDownloadProgress
ShowProgress ==
    /\ callPc = "input"
    /\ progressText' = ProgressText(progress)
    /\ callPc' = "done"
    /\ UNCHANGED <<completed, submitted, progress, toDownload, cancelAll, uiVars,
                   renderVars, displayVars, resolveVars, patchVars, downloadVars>>

NextProgressText == ShowProgress

SpecProgressText == InitProgressText /\ [][NextProgressText]_vars

(***************************************************************************)
(* downloadAllMissing: the entries of a fresh analyze result for which a   *)
(* download is started. download_source is <<>> when the entry has none,   *)
(* and its url is "" when the source carries no URL.                       *)
(***************************************************************************)
DownloadSources == {<<>>, <<[url |-> "", filename |-> "f"]>>, <<[url |-> "u", filename |-> "f"]>>}

DownloadAllMatchLists == {MkMatches(<<>>), MkMatches(<<85>>), MkMatches(<<85, 100>>)}

DownloadAllResponses ==
    UNION {{[i \in 1..n |-> [node_id |-> i, matches |-> ms[i], download_source |-> src[i]]] :
                ms \in [1..n -> DownloadAllMatchLists],
                src \in [1..n -> DownloadSources]} : n \in 0..MaxEntries}

\* missing.download_source?.url
HasUrl(missing) ==
    /\ missing.download_source # <<>>
    /\ missing.download_source[1].url # ""

\* (missing.matches || []).filter(m => m.confidence === 100)
PerfectOf(ms) == SelectSeq(ms, LAMBDA m : m.confidence = PerfectConfidence)

\* every entry that has a URL, whatever its candidates
ToDownloadIgnoringPerfect(missingModels) == SelectSeq(missingModels, HasUrl)

\* the loop that fills toDownload
ToDownload(missingModels) ==
    SelectSeq(missingModels, LAMBDA missing : ~(Len(PerfectOf(missing.matches)) > 0 \/ ~HasUrl(missing)))

\* downloadModel up to its await: the download request it sends, or nothing
\* when the entry has no URL
DownloadModelRequest(missing) ==
    IF ~HasUrl(missing) THEN <<>>
    ELSE <<[node_id |-> missing.node_id, url |-> missing.download_source[1].url]>>

\* for (const missing of toDownload) this.downloadModel(missing)
DownloadRequests(list) ==
    LET G[k \in 0..Len(list)] ==
            IF k = 0 THEN <<>> ELSE G[k - 1] \o DownloadModelRequest(list[k])
    IN  G[Len(list)]

InitDownloadAll ==
    /\ data \in DownloadAllResponses
    /\ sortedMissingModels = <<>>
    /\ displayPc = "idle"
    /\ completed = <<>>
    /\ submitted = <<>>
    /\ progress = <<>>
    /\ progressText = <<>>
    /\ toDownload = <<>>
    /\ cancelAll = NoCancelAll
    /\ IdleUi
    /\ callPc = "input"
    /\ IdleRender
    /\ IdleResolve
    /\ IdlePatch
    /\ IdleDownload

\* downloadAllMissing from the analyze response on
DownloadAllMissing(ok) ==
    /\ callPc = "input"
    /\ IF ~ok
       THEN /\ callPc' = "failed"
            /\ UNCHANGED <<toDownload, submitted>>
       ELSE /\ toDownload' = ToDownload(data)
            /\ submitted' = DownloadRequests(ToDownload(data))
            /\ callPc' = "done"
    /\ UNCHANGED <<completed, progress, progressText, cancelAll, uiVars, displayVars,
                   renderVars, resolveVars, patchVars, downloadVars>>

NextDownloadAll == \E ok \in BOOLEAN : DownloadAllMissing(ok)

SpecDownloadAll == InitDownloadAll /\ [][NextDownloadAll]_vars

(***************************************************************************)
(* displayMissingModels: the buttons renderMissingModel writes and the     *)
(* click listeners attached to them. An element id is the text of its id   *)
(* attribute: the kind, node_id, widget_index and, for a Link button, the  *)
(* matchIndex.                                                             *)
(***************************************************************************)
FileA75 == <<"models", "/", "A75">>

ButtonStores ==
    {[p \in MissingPaths |->
        CASE p = PathA -> a
          [] p = PathA2 -> <<>>
          [] p = PathOtherA -> <<>>
          [] p = PathB -> b] :
     a \in {<<>>, <<Match(100, FileA)>>, <<Match(75, FileA75), Match(85, FileA85)>>,
            <<Match(85, FileA85), Match(100, FileA)>>},
     b \in {<<>>, <<Match(100, FileB)>>, <<Match(85, FileB)>>}}

WithDownloadSource(entry, src) ==
    [original_path |-> entry.original_path,
     node_id |-> entry.node_id,
     widget_index |-> entry.widget_index,
     subgraph_id |-> entry.subgraph_id,
     is_top_level |-> entry.is_top_level,
     category |-> entry.category,
     all_node_refs |-> entry.all_node_refs,
     matches |-> entry.matches,
     download_source |-> src]

\* the analyze responses the dialog is given
ButtonResponses ==
    UNION {{[k \in 1..Len(Analyze(w, st)) |-> WithDownloadSource(Analyze(w, st)[k], src[k])] :
                src \in [1..Len(Analyze(w, st)) -> DownloadSources]} :
           w \in Workflows, st \in ButtonStores}

\* `resolve-${missing.node_id}-${missing.widget_index}-${matchIndex}`
ResolveButtonId(missing, matchIndex) ==
    [kind |-> "resolve", node_id |-> missing.node_id,
     widget_index |-> missing.widget_index, matchIndex |-> matchIndex]

\* `download-${missing.node_id}-${missing.widget_index}`
DownloadBtnId(missing) ==
    [kind |-> "download", node_id |-> missing.node_id,
     widget_index |-> missing.widget_index, matchIndex |-> 0]

\* `search-${missing.node_id}-${missing.widget_index}`
SearchBtnId(missing) ==
    [kind |-> "search", node_id |-> missing.node_id,
     widget_index |-> missing.widget_index, matchIndex |-> 0]

Button(id, entry, shows) == [id |-> id, entry |-> entry, shows |-> shows, listeners |-> <<>>]

\* renderMissingModel: the buttons of the card of entry number k, the Link
\* button of every row with the candidate the row shows, then the Download
\* or the Search Online button
RenderButtons(missing, k) ==
    LET rows == renderMissingModel(missing.matches).rows
    IN  [j \in 1..Len(rows) |-> Button(ResolveButtonId(missing, j - 1), k, <<rows[j]>>)]
        \o (IF Len(PerfectMatches(missing.matches)) > 0 THEN <<>>
            ELSE IF HasUrl(missing) THEN <<Button(DownloadBtnId(missing), k, <<>>)>>
            ELSE <<Button(SearchBtnId(missing), k, <<>>)>>)

\* container.innerHTML = html: the cards in display order
RenderContainer(sorted) ==
    LET G[k \in 0..Len(sorted)] ==
            IF k = 0 THEN <<>> ELSE G[k - 1] \o RenderButtons(sorted[k], k)
    IN  G[Len(sorted)]

\* container.querySelector(`#${id}`): the first element with the id, 0 for null
QuerySelector(c, id) ==
    LET hits == {i \in 1..Len(c) : c[i].id = id}
    IN  IF hits = {} THEN 0 ELSE CHOOSE i \in hits : \A j \in hits : i <= j

\* if (button) button.addEventListener('click', ...)
AddEventListener(c, id, call) ==
    LET i == QuerySelector(c, id)
    IN  IF i = 0 THEN c ELSE [c EXCEPT ![i].listeners = Append(@, call)]

\* the listener loop without its sorts
HandlerMatchesUnsorted(allMatches) ==
    IF Len(PerfectMatches(allMatches)) > 0
    THEN PerfectMatches(allMatches)
    ELSE Slice(OtherMatches(allMatches), MaxShown)

\* sortedMatches of the listener loop of displayMissingModels
HandlerMatches(allMatches) ==
    LET filteredMatches == SelectSeq(allMatches, LAMBDA m : m.confidence >= MinConfidence)
        perfectMatches == SelectSeq(filteredMatches, LAMBDA m : m.confidence = PerfectConfidence)
        otherMatches == SelectSeq(filteredMatches,
                            LAMBDA m : m.confidence < PerfectConfidence
                                       /\ m.confidence >= MinConfidence)
        matchesToShow ==
            IF Len(perfectMatches) > 0 THEN perfectMatches
            ELSE Slice(StableSort(otherMatches, "byConfidenceDesc"), MaxShown)
    IN  StableSort(matchesToShow, "perfectFirst")

Call(fn, k, model) == [fn |-> fn, missing |-> k, model |-> model]

\* one turn of sortedMissingModels.forEach((missing, missingIndex) => ...)
AttachListeners(c, sorted, k) ==
    LET missing == sorted[k]
        sortedMatches == HandlerMatches(missing.matches)
        R[j \in 0..Len(sortedMatches)] ==
            IF j = 0 THEN c
            ELSE AddEventListener(R[j - 1], ResolveButtonId(missing, j - 1),
                                  Call("resolveModel", k, <<sortedMatches[j].model>>))
        withResolve == R[Len(sortedMatches)]
        withDownload ==
            IF missing.download_source # <<>>
            THEN AddEventListener(withResolve, DownloadBtnId(missing),
                                  Call("downloadModel", k, <<>>))
            ELSE withResolve
    IN  AddEventListener(withDownload, SearchBtnId(missing), Call("searchOnline", k, <<>>))

\* displayMissingModels from container.innerHTML = html on
ContainerWithListeners(sorted) ==
    LET G[k \in 0..Len(sorted)] ==
            IF k = 0 THEN RenderContainer(sorted) ELSE AttachListeners(G[k - 1], sorted, k)
    IN  G[Len(sorted)]

InitButtons ==
    /\ data \in ButtonResponses
    /\ sortedMissingModels = <<>>
    /\ displayPc = "input"
    /\ IdleButtons
    /\ IdlePopups
    /\ IdleChecks
    /\ completed = <<>>
    /\ submitted = <<>>
    /\ progress = <<>>
    /\ progressText = <<>>
    /\ toDownload = <<>>
    /\ cancelAll = NoCancelAll
    /\ callPc = "idle"
    /\ IdleRender
    /\ IdleResolve
    /\ IdlePatch
    /\ IdleDownload

\* displayMissingModels
DisplayButtons ==
    /\ displayPc = "input"
    /\ sortedMissingModels' = displayMissingModels(data)
    /\ container' = ContainerWithListeners(displayMissingModels(data))
    /\ displayPc' = "done"
    /\ UNCHANGED <<data, clicked, completed, submitted, progress, progressText, toDownload,
                   cancelAll, callPc, popupVars, checkVars,
                   renderVars, resolveVars, patchVars, downloadVars>>

\* the user clicks button i: its listeners run in the order they were added
ClickButton(i) ==
    /\ displayPc = "done"
    /\ i \in 1..Len(container)
    /\ clicked' = [button |-> i, run |-> container[i].listeners]
    /\ UNCHANGED <<container, displayVars, completed, submitted, progress, progressText,
                   toDownload, cancelAll, callPc, popupVars, checkVars,
                   renderVars, resolveVars, patchVars, downloadVars>>

NextButtons ==
    \/ DisplayButtons
    \/ \E i \in DOMAIN container : ClickButton(i)

SpecButtons == InitButtons /\ [][NextButtons]_vars

(***************************************************************************)
(* setupMissingModelsPopupObserver and checkAndInjectButton: the button    *)
(* injected into the host's Missing Models popup. The popup has the        *)
(* "Don't show this again" checkbox or the list of models, next to which   *)
(* the button is inserted.                                                 *)
(***************************************************************************)
MaxMutations == 3

PopupIds == {1, 2}

InitPopup ==
    /\ popups = [p \in PopupIds |-> [mutations |-> 0, timers |-> 0, buttons |-> 0]]
    /\ IdleButtons
    /\ IdleChecks
    /\ completed = <<>>
    /\ submitted = <<>>
    /\ progress = <<>>
    /\ progressText = <<>>
    /\ toDownload = <<>>
    /\ cancelAll = NoCancelAll
    /\ callPc = "idle"
    /\ IdleRender
    /\ IdleDisplay
    /\ IdleResolve
    /\ IdlePatch
    /\ IdleDownload

\* !dialog.querySelector('#model-linker-btn-container'): the check made when
\* the mutation arrives
NotYetInjected(popup) == popup.buttons = 0

\* the observer's callback for an added node that is popup p:
\* checkAndInjectButton up to setTimeout(injectButtons, 100)
CheckAndInjectButton(p) ==
    /\ popups[p].mutations < MaxMutations
    /\ popups' = [popups EXCEPT
            ![p].mutations = @ + 1,
            ![p].timers = IF NotYetInjected(popups[p]) THEN @ + 1 ELSE @]
    /\ UNCHANGED <<buttonVars, checkVars, completed, submitted, progress, progressText,
                   toDownload, cancelAll, callPc,
                   renderVars, displayVars, resolveVars, patchVars, downloadVars>>

\* the timer fires: injectButtons inserts the button before the checkbox row
\* or, in a wrapper, before the list of models
InjectButtons(p) ==
    /\ popups[p].timers > 0
    /\ popups' = [popups EXCEPT ![p].timers = @ - 1, ![p].buttons = @ + 1]
    /\ UNCHANGED <<buttonVars, checkVars, completed, submitted, progress, progressText,
                   toDownload, cancelAll, callPc,
                   renderVars, displayVars, resolveVars, patchVars, downloadVars>>

NextPopup ==
    \/ \E p \in PopupIds : CheckAndInjectButton(p)
    \/ \E p \in PopupIds : InjectButtons(p)

SpecPopup == InitPopup /\ [][NextPopup]_vars

(***************************************************************************)
(* checkAndOpenForMissingModels: the check that opens the dialog when a    *)
(* loaded workflow has missing models. A step is the code between two      *)
(* awaits.                                                                 *)
(***************************************************************************)
MaxChecks == 3

CheckIds == 1..MaxChecks

\* the hash of the loaded workflow; "null" when there is none to serialize
WorkflowHashes == {"w1", "w2"}

NoCheck == [pc |-> "idle", exit |-> "none", analysed |-> FALSE]

InitCheck ==
    /\ modelLinker = [isCheckingMissing |-> FALSE, lastCheckedWorkflow |-> "null",
                      autoOpen |-> TRUE, workflow |-> "null", opened |-> FALSE]
    /\ checks = [c \in CheckIds |-> NoCheck]
    /\ IdleButtons
    /\ IdlePopups
    /\ completed = <<>>
    /\ submitted = <<>>
    /\ progress = <<>>
    /\ progressText = <<>>
    /\ toDownload = <<>>
    /\ cancelAll = NoCancelAll
    /\ callPc = "idle"
    /\ IdleRender
    /\ IdleDisplay
    /\ IdleResolve
    /\ IdlePatch
    /\ IdleDownload

UnchangedByCheck ==
    UNCHANGED <<buttonVars, popupVars, completed, submitted, progress, progressText,
                toDownload, cancelAll, callPc,
                renderVars, displayVars, resolveVars, patchVars, downloadVars>>

\* the host loads a workflow, or closes it
LoadWorkflow(h) ==
    /\ modelLinker.workflow # h
    /\ modelLinker' = [modelLinker EXCEPT !.workflow = h]
    /\ UNCHANGED checks
    /\ UnchangedByCheck

\* setAutoOpenEnabled
SetAutoOpenEnabled(enabled) ==
    /\ modelLinker.autoOpen # enabled
    /\ modelLinker' = [modelLinker EXCEPT !.autoOpen = enabled]
    /\ UNCHANGED checks
    /\ UnchangedByCheck

\* a flag that stays set when the workflow was checked before
ClearedUnlessUnchanged(exit) == exit = "unchanged"

\* finally { this.isCheckingMissing = false }: the flag after an exit
Finally(exit) == FALSE

\* the first call not yet made
NextCheck == CHOOSE c \in CheckIds : checks[c].pc = "idle" /\ \A b \in CheckIds : b < c => checks[b].pc # "idle"

\* checkAndOpenForMissingModels up to the await of the 500 ms delay
CheckAndOpenCall ==
    /\ \E c \in CheckIds : checks[c].pc = "idle"
    /\ IF ~modelLinker.autoOpen
       THEN /\ checks' = [checks EXCEPT ![NextCheck] = [@ EXCEPT !.pc = "done", !.exit = "disabled"]]
            /\ UNCHANGED modelLinker
       ELSE IF modelLinker.isCheckingMissing
       THEN /\ checks' = [checks EXCEPT ![NextCheck] = [@ EXCEPT !.pc = "done", !.exit = "busy"]]
            /\ UNCHANGED modelLinker
       ELSE /\ checks' = [checks EXCEPT ![NextCheck].pc = "delay"]
            /\ modelLinker' = [modelLinker EXCEPT !.isCheckingMissing = TRUE]
    /\ UnchangedByCheck

\* from the end of the delay to the await of the analyze request, or to the
\* return for no workflow or for a workflow that was checked before
CheckAfterDelay(c) ==
    /\ checks[c].pc = "delay"
    /\ IF modelLinker.workflow = "null"
       THEN /\ checks' = [checks EXCEPT ![c] = [@ EXCEPT !.pc = "done", !.exit = "no_workflow"]]
            /\ modelLinker' = [modelLinker EXCEPT !.isCheckingMissing = Finally("no_workflow")]
       ELSE IF modelLinker.lastCheckedWorkflow = modelLinker.workflow
       THEN /\ checks' = [checks EXCEPT ![c] = [@ EXCEPT !.pc = "done", !.exit = "unchanged"]]
            /\ modelLinker' = [modelLinker EXCEPT !.isCheckingMissing = Finally("unchanged")]
       ELSE /\ checks' = [checks EXCEPT ![c] = [@ EXCEPT !.pc = "analyze", !.analysed = TRUE]]
            /\ modelLinker' = [modelLinker EXCEPT !.lastCheckedWorkflow = modelLinker.workflow]
    /\ UnchangedByCheck

CheckResults == {"missing", "none_missing", "not_ok", "exception"}

\* from the analyze response, or its failure, to the end
CheckAnalyzed(c, result) ==
    /\ checks[c].pc = "analyze"
    /\ checks' = [checks EXCEPT ![c] = [@ EXCEPT !.pc = "done", !.exit = result]]
    /\ modelLinker' = [modelLinker EXCEPT
            !.isCheckingMissing = Finally(result),
            !.opened = IF result = "missing" THEN TRUE ELSE @]
    /\ UnchangedByCheck

NextCheckAndOpen ==
    \/ \E h \in WorkflowHashes \cup {"null"} : LoadWorkflow(h)
    \/ \E enabled \in BOOLEAN : SetAutoOpenEnabled(enabled)
    \/ CheckAndOpenCall
    \/ \E c \in CheckIds : CheckAfterDelay(c)
    \/ \E c \in CheckIds, result \in CheckResults : CheckAnalyzed(c, result)

SpecCheck == InitCheck /\ [][NextCheckAndOpen]_vars

(***************************************************************************)
(* The Download All button next to the downloads it starts:                *)
(* handleDownloadAllClick, downloadAllMissing and downloadModel. The       *)
(* analysis lists any of the entries that have a download source as still  *)
(* missing without a confidence-100 candidate.                             *)
(***************************************************************************)
\* handleDownloadAllClick with no download tracked: downloadAllMissing up to
\* the await of the analyze request
DownloadAllClick ==
    /\ callPc = "idle"
    /\ ~(Cardinality(Tracked) > 0)
    /\ callPc' = "analyze"
    /\ UNCHANGED <<completed, submitted, progress, progressText, toDownload, cancelAll,
                   uiVars, downloadVars, renderVars, displayVars, resolveVars, patchVars>>

\* downloadAllMissing from the analyze response on: downloadModel, up to the
\* await of its start request, for every entry of toDownload, then
\* updateDownloadAllButtonState
DownloadAllAnalyzed(ok, entries) ==
    /\ callPc = "analyze"
    /\ callPc' = "idle"
    /\ IF ok /\ entries # {}
       THEN /\ Requested + Created + Cardinality(entries) <= MaxDownloads
            /\ toDownload' = entries
            /\ starting' = [e \in DownloadEntries |->
                                IF e \in entries THEN starting[e] + 1 ELSE starting[e]]
            /\ startedBy' = [e \in DownloadEntries |->
                                IF e \in entries THEN "download_all" ELSE startedBy[e]]
            /\ progressDiv' = [e \in DownloadEntries |->
                                IF e \in entries THEN Connecting ELSE progressDiv[e]]
            /\ footer' = updateDownloadAllButtonState(Cardinality(Tracked))
       ELSE /\ entries = {}
            /\ UNCHANGED <<toDownload, starting, startedBy, progressDiv, footer>>
    /\ UNCHANGED <<activeDownloads, jobs, inflight, timers, lastPoll, cancelAsked, handled,
                   completed, submitted, progress, progressText, cancelAll,
                   uiVars, renderVars, displayVars, resolveVars, patchVars>>

InitDownloadAllClicks ==
    /\ activeDownloads = <<>>
    /\ jobs = [d \in DownloadIds |-> "absent"]
    /\ starting = [e \in DownloadEntries |-> 0]
    /\ inflight = [d \in DownloadIds |-> 0]
    /\ timers = [d \in DownloadIds |-> 0]
    /\ lastPoll = [d \in DownloadIds |-> "none"]
    /\ cancelAsked = {}
    /\ handled = [d \in DownloadIds |-> [terminal |-> 0, autoResolve |-> 0]]
    /\ startedBy = [e \in DownloadEntries |-> "nothing"]
    /\ footer = updateDownloadAllButtonState(0)
    /\ progressDiv = [e \in DownloadEntries |-> Hidden]
    /\ completed = <<>>
    /\ submitted = <<>>
    /\ progress = <<>>
    /\ progressText = <<>>
    /\ toDownload = {}
    /\ cancelAll = NoCancelAll
    /\ callPc = "idle"
    /\ IdleUi
    /\ IdleRender
    /\ IdleDisplay
    /\ IdleResolve
    /\ IdlePatch

NextDownloadAllClicks ==
    \/ DownloadAllClick
    \/ \E ok \in BOOLEAN, entries \in SUBSET DownloadEntries : DownloadAllAnalyzed(ok, entries)
    \/ \E e \in DownloadEntries, ok \in BOOLEAN : DownloadModelResponse(e, ok)
    \/ \E d \in DownloadIds : JobProgress(d)
    \/ \E d \in DownloadIds, result \in PollResults : PollResponse(d, result)
    \/ \E d \in DownloadIds : PollTimer(d)

SpecDownloadAllClicks == InitDownloadAllClicks /\ [][NextDownloadAllClicks]_vars

(***************************************************************************)
(* Properties of the resolve flows (SpecResolve).                          *)
(***************************************************************************)
SameReference(x, y) ==
    /\ x.node_id = y.node_id
    /\ x.widget_index = y.widget_index
    /\ x.subgraph_id = y.subgraph_id

ResolveSent(f) == flows[f].requests > 0

\* C1: a resolveModel call for entry E and file F sends one resolve request
\* whose resolutions are, reference for reference, E's all_node_refs, each
\* with that reference's node_id, widget_index, subgraph_id and is_top_level
\* and with F's path.
C1_OneResolutionPerReference ==
    \A f \in FlowIds :
        flows[f].kind = "resolveModel" =>
            LET E == flows[f].missing[1]
                F == flows[f].picks[1].match.model
                rs == flows[f].resolutions
            IN  /\ flows[f].requests = 1
                /\ Len(rs) = Len(E.all_node_refs)
                /\ \A k \in 1..Len(rs) :
                    /\ rs[k].node_id = E.all_node_refs[k].node_id
                    /\ rs[k].widget_index = E.all_node_refs[k].widget_index
                    /\ rs[k].subgraph_id = E.all_node_refs[k].subgraph_id
                    /\ rs[k].is_top_level = E.all_node_refs[k].is_top_level
                    /\ rs[k].resolved_path = F.path
                /\ \A j, k \in 1..Len(rs) : j # k => ~SameReference(rs[j], rs[k])

\* an entry referenced by two top-level nodes and one subgraph-definition
\* node has been linked: three resolutions
C1_Witness ==
    \E f \in FlowIds :
        /\ flows[f].kind = "resolveModel"
        /\ Len(flows[f].missing[1].all_node_refs) = 3
        /\ Len(flows[f].resolutions) = 3
        /\ Cardinality({k \in 1..3 : flows[f].resolutions[k].is_top_level}) = 2
        /\ \E k \in 1..3 : /\ flows[f].resolutions[k].subgraph_id = "sg"
                           /\ ~flows[f].resolutions[k].is_top_level

\* C2 as stated: autoResolve100Percent emits, for every entry with a
\* confidence-100 candidate, a resolution for every reference of the entry's
\* all_node_refs, and after a successful run the patched workflow holds no
\* reference to that entry's missing path.
C2_BulkCoversEveryReference ==
    \A f \in FlowIds :
        (flows[f].kind = "autoResolve100Percent" /\ ResolveSent(f)) =>
            \A k \in 1..Len(flows[f].analysis) :
                LET E == flows[f].analysis[k]
                IN  FirstPerfect(E.matches) # <<>> =>
                      /\ \A i \in 1..Len(E.all_node_refs) :
                            \E j \in 1..Len(flows[f].resolutions) :
                                SameReference(flows[f].resolutions[j], E.all_node_refs[i])
                      /\ flows[f].outcome = "success" =>
                            \A r \in RefIds : flows[f].reload[r] # E.original_path

Succeeded(f) == flows[f].outcome = "success" /\ flows[f].pc \in {"reload", "done"}

PatchedRefs(f) == {RefOf(flows[f].resolutions[k]) : k \in 1..Len(flows[f].resolutions)}

\* C4 as stated: when two flows for different entries both report success,
\* the live graph holds the patches of both.
C4_BothPatchesInGraph ==
    \A f, g \in FlowIds :
        (f # g /\ Succeeded(f) /\ Succeeded(g) /\ PatchedRefs(f) \cap PatchedRefs(g) = {}) =>
            \A h \in {f, g} :
                \A k \in 1..Len(flows[h].resolutions) :
                    graph[RefOf(flows[h].resolutions[k])] = flows[h].resolutions[k].resolved_path

FailedOutcomes == {"unsuccessful", "http_error", "exception"}

\* C6: the step in which resolveModel, autoResolve100Percent or
\* autoResolveAfterDownload learns that its resolve request failed (success
\* = false, a non-OK status, an exception) leaves the live graph as it was.
C6_FailedResolveLeavesGraph ==
    [][\A f \in FlowIds :
          (flows[f].pc = "resolve" /\ flows'[f].pc # "resolve"
           /\ flows'[f].outcome \in FailedOutcomes) => graph' = graph]_vars

\* two calls of different kinds whose resolve requests failed in different
\* ways, and the graph still holds every missing path it started with
C6_Witness ==
    \E f, g \in FlowIds :
        /\ flows[f].kind = "autoResolveAfterDownload"
        /\ flows[f].outcome = "unsuccessful"
        /\ flows[g].kind = "resolveModel"
        /\ flows[g].outcome = "http_error"
        /\ flows[g].pc = "done"
        /\ graph = flows[f].workflow
        /\ graph = flows[g].workflow

\* C16: every resolution of a request that resolveModel, autoResolve100Percent
\* or autoResolveAfterDownload has sent carries the category analyze reported
\* for the reference the resolution names.
C16_CategoryRoundTrips ==
    \A f \in FlowIds :
        ResolveSent(f) =>
            \A k \in 1..Len(flows[f].resolutions) :
                LET res == flows[f].resolutions[k]
                IN  \E r \in RefIds :
                        /\ SameReference(RefInfo(r), res)
                        /\ res.category = RefInfo(r).category

\* a request was sent for an entry whose references have different categories
C16_Witness ==
    \E f \in FlowIds :
        /\ ResolveSent(f)
        /\ flows[f].kind \in {"resolveModel", "autoResolveAfterDownload"}
        /\ \E k, j \in 1..Len(flows[f].resolutions) :
                flows[f].resolutions[k].category # flows[f].resolutions[j].category

\* C24: a run of autoResolveAfterDownload never calls loadWorkflowData
\* twice, has called it once when it is awaiting the reload or has ended,
\* and every run that has started ends.
C24_ReloadsExactlyOnce ==
    /\ [](\A f \in FlowIds :
            flows[f].kind = "autoResolveAfterDownload" =>
                /\ flows[f].reloads <= 1
                /\ flows[f].pc \in {"reload", "done"} => flows[f].reloads = 1)
    /\ \A f \in FlowIds :
            (flows[f].kind = "autoResolveAfterDownload")
                ~> (flows[f].pc = "done" /\ flows[f].reloads = 1)

\* a run has ended after a resolve request that failed
C24_Witness ==
    \E f \in FlowIds :
        /\ flows[f].kind = "autoResolveAfterDownload"
        /\ flows[f].pc = "done"
        /\ flows[f].outcome \in FailedOutcomes
        /\ flows[f].reloads = 1

(***************************************************************************)
(* Properties of the auto-resolve after a download (SpecAfterDownload).    *)
(***************************************************************************)
DownloadedIsCandidate ==
    \E k \in 1..Len(completed.missing.matches) :
        completed.missing.matches[k].filename = completed.filename

\* C14 as stated: when the file downloaded for entry E is a candidate for E
\* in the re-analysis, the resolutions submitted are one for every reference
\* of E and none for a reference of another entry.
C14_ResolvesTheDownloadedEntry ==
    (callPc = "done" /\ DownloadedIsCandidate) =>
        /\ \A i \in 1..Len(completed.missing.all_node_refs) :
              \E j \in 1..Len(submitted) :
                  SameReference(submitted[j], completed.missing.all_node_refs[i])
        /\ \A j \in 1..Len(submitted) :
              \E i \in 1..Len(completed.missing.all_node_refs) :
                  SameReference(submitted[j], completed.missing.all_node_refs[i])

(***************************************************************************)
(* Properties of the progress line (SpecProgressText).                     *)
(***************************************************************************)
\* C15 as stated: for a snapshot without a total size the progress line has
\* the bytes downloaded (and the speed) and neither a total nor a percentage.
C15_AbsoluteBytesOnlyWithoutTotal ==
    (callPc = "done" /\ progress.total_size = Absent) =>
        /\ \E k \in 1..Len(progressText) : progressText[k].part = "downloaded"
        /\ \A k \in 1..Len(progressText) : progressText[k].part \notin {"total", "percent"}

(***************************************************************************)
(* Properties of Download All (SpecDownloadAll).                           *)
(***************************************************************************)
Downloadable(missing) ==
    /\ HasUrl(missing)
    /\ \A j \in 1..Len(missing.matches) : missing.matches[j].confidence # PerfectConfidence

\* C19: once downloadAllMissing has run on an analyze result, exactly one
\* download request has been sent for every entry that has a URL and no
\* confidence-100 candidate, and none for any other entry; a failed analyze
\* request starts none.
C19_StartsExactlyTheDownloadable ==
    /\ callPc = "done" =>
        /\ \A k \in 1..Len(data) :
                Cardinality({j \in 1..Len(submitted) : submitted[j].node_id = data[k].node_id})
                    = IF Downloadable(data[k]) THEN 1 ELSE 0
        /\ \A j \in 1..Len(submitted) :
                \E k \in 1..Len(data) : submitted[j].node_id = data[k].node_id
    /\ callPc = "done" /\ (\A k \in 1..Len(data) : ~Downloadable(data[k])) => submitted = <<>>
    /\ callPc = "failed" => submitted = <<>>

\* Download All ran on a result with an entry it downloads, an entry with a
\* URL and a confidence-100 candidate, and an entry without a URL
C19_Witness ==
    /\ callPc = "done"
    /\ Len(submitted) > 0
    /\ \E k \in 1..Len(data) : HasUrl(data[k]) /\ Len(PerfectOf(data[k].matches)) > 0
    /\ \E k \in 1..Len(data) : ~HasUrl(data[k]) /\ Len(PerfectOf(data[k].matches)) = 0

(***************************************************************************)
(* Properties of the buttons of the dialog (SpecButtons).                  *)
(***************************************************************************)
\* the entry of button i shares its node_id and widget_index with no other
\* displayed entry
OwnIds(i) ==
    \A k \in 1..Len(sortedMissingModels) :
        (/\ sortedMissingModels[k].node_id = container[i].id.node_id
         /\ sortedMissingModels[k].widget_index = container[i].id.widget_index)
            => k = container[i].entry

\* button i calls resolveModel once, with its entry and the candidate its
\* row shows
BoundToShown(i) ==
    /\ Len(container[i].listeners) = 1
    /\ container[i].listeners[1] =
            Call("resolveModel", container[i].entry, <<container[i].shows[1].model>>)

C22_ClickActsOnItsEntryOnce ==
    clicked.button # 0 =>
        /\ Len(clicked.run) = 1
        /\ clicked.run[1].missing = container[clicked.button].entry

(***************************************************************************)
(* Properties of the button injected into the host's popup (SpecPopup).    *)
(***************************************************************************)
\* C23: a popup never holds more than one injected button, and once the
\* mutation events that matched it have been handled and no injection is
\* pending it holds exactly one.
C23_InjectedOnce ==
    \A p \in DOMAIN popups :
        /\ popups[p].buttons <= 1
        /\ (popups[p].mutations > 0 /\ popups[p].timers = 0) => popups[p].buttons = 1

(***************************************************************************)
(* Properties of the missing-model check (SpecCheck).                      *)
(***************************************************************************)
InProgress(c) == checks[c].pc \in {"delay", "analyze"}

\* C25: at most one call of checkAndOpenForMissingModels is in progress; a
\* call made while another was in progress has returned without analysing;
\* and isCheckingMissing is set exactly while a call is in progress, so it
\* is cleared on every exit.
C25_OneCheckAtATime ==
    /\ Cardinality({c \in CheckIds : InProgress(c)}) <= 1
    /\ \A c \in CheckIds : checks[c].exit = "busy" => ~checks[c].analysed
    /\ modelLinker.isCheckingMissing <=> \E c \in CheckIds : InProgress(c)

\* a call was turned away while another was in progress, that one has ended
\* for want of a workflow, and a later call has gone on to analyse
C25_Witness ==
    \E a, b, c \in CheckIds :
        /\ checks[a].exit = "no_workflow"
        /\ checks[b].exit = "busy"
        /\ a < c
        /\ checks[c].pc = "analyze"

(***************************************************************************)
(* Properties of the direct node update (SpecPatch).                       *)
(***************************************************************************)
NamesMissingNode ==
    \E k \in 1..Len(batch) : batch[k].node_id \notin DOMAIN liveNodes

\* C5 as stated: a call of updateNodesDirectly with a batch in which some
\* resolution names a node that is not in the graph changes no widget value
\* of any node.
C5_BatchWithMissingNodeRejected ==
    [][(patchPc = "input" /\ patchPc' = "done" /\ NamesMissingNode)
          => liveNodes' = liveNodes]_vars

(***************************************************************************)
(* Properties of the download tracking (SpecDownload).                     *)
(***************************************************************************)
EvictedNow(d) == d \in DOMAIN activeDownloads /\ d \notin DOMAIN activeDownloads'

\* C10 as stated: an id leaves activeDownloads only in a step in which a
\* poll of that id has observed completed, error or cancelled.
C10_EvictedOnlyAfterTerminal ==
    [][\A d \in DownloadIds :
          EvictedNow(d) => (inflight'[d] < inflight[d] /\ lastPoll'[d] \in TerminalStatuses)]_vars

\* C10 as amended: an id leaves activeDownloads only in a step in which a
\* poll of that id has observed completed, error or cancelled, or has
\* failed (a non-OK response or an exception); a poll that sees any other
\* status leaves it tracked.
C10_EvictedOnlyAfterTerminalOrFailedPoll ==
    [][\A d \in DownloadIds :
          /\ EvictedNow(d) =>
                (inflight'[d] < inflight[d] /\ lastPoll'[d] \in TerminalStatuses \cup {"failed"})
          /\ (d \in DOMAIN activeDownloads /\ inflight'[d] < inflight[d]
              /\ lastPoll'[d] \notin TerminalStatuses \cup {"failed"})
                => d \in DOMAIN activeDownloads']_vars

\* an id was evicted by a failed poll while its job is still running
C10_Witness ==
    \E d \in DownloadIds :
        /\ jobs[d] = "downloading"
        /\ d \notin DOMAIN activeDownloads
        /\ lastPoll[d] = "failed"

\* C11: for every download id at most one terminal status is handled; once
\* it has been, the id is no longer tracked, no progress request or poll
\* timer for it is left, and the auto-resolve was scheduled once if the
\* status was completed and not at all otherwise.
C11_TerminalHandledOnce ==
    \A d \in DownloadIds :
        /\ handled[d].terminal <= 1
        /\ handled[d].terminal = 1 =>
              /\ lastPoll[d] \in TerminalStatuses
              /\ d \notin DOMAIN activeDownloads
              /\ inflight[d] = 0
              /\ timers[d] = 0
        /\ handled[d].autoResolve =
              (IF handled[d].terminal = 1 /\ lastPoll[d] = "completed" THEN 1 ELSE 0)

\* one download was seen cancelled and another completed
C11_Witness ==
    \E c, d \in DownloadIds :
        /\ handled[c].terminal = 1 /\ lastPoll[c] = "cancelled"
        /\ handled[d].terminal = 1 /\ lastPoll[d] = "completed"
        /\ handled[d].autoResolve = 1

\* C12 as stated: a step in which a cancel request for download a is
\* accepted leaves every other tracked download b as it was: its tracking
\* entry, its pending poll and what its progress area (info.progressDiv of
\* b) shows.
C12_CancelLeavesOthersAlone ==
    [][\A a \in DownloadIds :
          (a \in cancelAsked' /\ a \notin cancelAsked) =>
              /\ cancelAsked' = cancelAsked \cup {a}
              /\ \A b \in DOMAIN activeDownloads \ {a} :
                    /\ b \in DOMAIN activeDownloads'
                    /\ activeDownloads'[b] = activeDownloads[b]
                    /\ inflight'[b] = inflight[b]
                    /\ timers'[b] = timers[b]
                    /\ progressDiv'[activeDownloads[b].missing] =
                          progressDiv[activeDownloads[b].missing]]_vars

\* C17 as stated: whenever the progress area of an entry shows a Cancel
\* button, the button has a listener that sends the cancel request of a
\* download.
C17_ShownCancelButtonCancels ==
    \A e \in DownloadEntries :
        progressDiv[e].shows \in WithCancelButton => progressDiv[e].listeners # {}

\* C13: every start request for an entry was issued by a click on a
\* download control; none is issued by the client on its own after a failed
\* start or a download seen in error or cancelled.
C13_NoAutomaticRetry ==
    \A e \in DownloadEntries :
        /\ startedBy[e] \in {"nothing", "click"}
        /\ starting[e] > 0 => startedBy[e] = "click"

\* a start has failed and a download was seen in error, and the client is
\* at rest: nothing tracked, no request and no timer pending
C13_Witness ==
    /\ \E d \in DownloadIds : lastPoll[d] = "error" /\ handled[d].terminal = 1
    /\ Cardinality({d \in DownloadIds : jobs[d] # "absent"}) < MaxDownloads
    /\ \A e \in DownloadEntries : startedBy[e] = "click" /\ starting[e] = 0
    /\ DOMAIN activeDownloads = {}
    /\ \A d \in DownloadIds : inflight[d] = 0 /\ timers[d] = 0

\* C18: the footer button shows 'Cancel All (n)' with n the number of tracked
\* downloads when there is one, and 'Download All Missing' when there is
\* none: its mode is the test handleDownloadAllClick makes.
C18_FooterMatchesTracked ==
    LET n == Cardinality(DOMAIN activeDownloads)
    IN  /\ n > 0 => footer.mode = "cancel_all" /\ footer.n = n
        /\ n = 0 => footer.mode = "download_all"

\* two downloads were tracked, one has been evicted, the button counts one
C18_Witness ==
    /\ footer = [mode |-> "cancel_all", n |-> 1]
    /\ \E d \in DownloadIds : jobs[d] # "absent" /\ d \notin DOMAIN activeDownloads
    /\ \E d \in DownloadIds : handled[d].terminal = 1

(***************************************************************************)
(* Properties of Cancel All (SpecCancelAll).                               *)
(***************************************************************************)
\* C20: cancelAllDownloads sends its cancel requests for the ids that were
\* tracked when it was invoked, one each and in their order; when it has
\* ended it has sent one for every such id, also when a request has failed;
\* and an id that is no longer tracked has been removed by a poll.
C20_CancelAllCoversSnapshot ==
    /\ Len(cancelAll.sent) <= Len(cancelAll.downloadIds)
    /\ \A k \in 1..Len(cancelAll.sent) : cancelAll.sent[k] = cancelAll.downloadIds[k]
    /\ \A k, j \in 1..Len(cancelAll.downloadIds) :
            cancelAll.downloadIds[k] = cancelAll.downloadIds[j] => k = j
    /\ cancelAll.pc = "done" => cancelAll.sent = cancelAll.downloadIds
    /\ \A d \in DownloadIds :
            jobs[d] # "absent" /\ d \notin Tracked => Evicts(lastPoll[d])

\* Cancel All has ended for two downloads, the request for the first one failed
\* and both downloads are still tracked
C20_Witness ==
    /\ cancelAll.pc = "done"
    /\ Len(cancelAll.downloadIds) = 2
    /\ cancelAll.downloadIds[1] \in cancelAll.failed
    /\ {cancelAll.downloadIds[1], cancelAll.downloadIds[2]} \subseteq Tracked

(***************************************************************************)
(* The poll chains (SpecDownload).                                         *)
(***************************************************************************)
\* the progress requests in flight for d and the timers set to poll d
Polls(d) == inflight[d] + timers[d]

\* C26: between handler steps a download id is tracked exactly when a
\* progress poll for it is in flight or scheduled, and there is never more
\* than one such poll per id.
C26_TrackedIffPolled ==
    \A d \in DownloadIds :
        /\ d \in Tracked <=> Polls(d) > 0
        /\ Polls(d) <= 1

\* one download is tracked with its next poll scheduled by a poll that saw it
\* running, while another has been evicted by its poll and has none
C26_Witness ==
    \E d, e \in DownloadIds :
        /\ d \in Tracked
        /\ lastPoll[d] \in RunningStatuses
        /\ timers[d] = 1
        /\ jobs[e] # "absent"
        /\ e \notin Tracked
        /\ Evicts(lastPoll[e])
        /\ Polls(e) = 0

(***************************************************************************)
(* Properties of repeated Download All clicks (SpecDownloadAllClicks).     *)
(***************************************************************************)
\* C27: no entry has more than one download that Download All started
\* pending or tracked.
C27_OneDownloadPerEntry ==
    \A e \in DownloadEntries :
        starting[e] + Cardinality({d \in Tracked : activeDownloads[d].missing = e}) <= 1

(***************************************************************************)
(* Properties of the rendered candidate rows (SpecRender).                 *)
(***************************************************************************)
RowIdx == {rendered.rows[k].idx : k \in 1..Len(rendered.rows)}

IdxAtLeastMin == {i \in 1..Len(matches) : matches[i].confidence >= MinConfidence}

IdxSuppressed ==
    {i \in 1..Len(matches) :
        matches[i].confidence >= MinConfidence /\ matches[i].confidence < PerfectConfidence}

EntryHas100 == \E i \in 1..Len(matches) : matches[i].confidence = PerfectConfidence

RowsAreCandidates ==
    \A k \in 1..Len(rendered.rows) :
        /\ rendered.rows[k].idx \in 1..Len(matches)
        /\ rendered.rows[k] = matches[rendered.rows[k].idx]

\* row j sorts before row k: higher confidence, or the same and earlier in
\* the analyze response
Before(a, b) ==
    \/ a.confidence > b.confidence
    \/ a.confidence = b.confidence /\ a.idx < b.idx

RowsOrdered ==
    \A j, k \in 1..Len(rendered.rows) : j < k => Before(rendered.rows[j], rendered.rows[k])

\* C7: for an entry with a confidence-100 candidate, every row that gets a
\* Link button has confidence 100, and the number of suppressed candidates
\* with confidence 70 to 99 is the number reported in the note of the entry
\* (no note stands for none suppressed).
C7_OnlyPerfectOffered ==
    (renderPc = "done" /\ EntryHas100) =>
        /\ RowsAreCandidates
        /\ \A k \in 1..Len(rendered.rows) :
                rendered.rows[k].confidence = PerfectConfidence
        /\ rendered.note = Cardinality(IdxSuppressed)

C7_Witness ==
    /\ renderPc = "done"
    /\ EntryHas100
    /\ Cardinality(IdxSuppressed) = 2
    /\ rendered.note = 2
    /\ Len(rendered.rows) = 2

\* C8 as stated: for an entry with no confidence-100 candidate the rows are
\* exactly the candidates with confidence >= 70, in non-increasing
\* confidence, equal confidences in the order of the analyze response.
C8_AllAtLeastMinOffered ==
    (renderPc = "done" /\ ~EntryHas100) =>
        /\ RowsAreCandidates
        /\ RowIdx = IdxAtLeastMin
        /\ Len(rendered.rows) = Cardinality(IdxAtLeastMin)
        /\ RowsOrdered

\* C8 as amended: for an entry with no confidence-100 candidate the rows are
\* the first five (all, when there are at most five) of the candidates with
\* confidence >= 70 taken in non-increasing confidence, equal confidences in
\* the order of the analyze response; none below 70 is offered.
C8_FirstFiveAtLeastMinOffered ==
    (renderPc = "done" /\ ~EntryHas100) =>
        /\ RowsAreCandidates
        /\ RowIdx \subseteq IdxAtLeastMin
        /\ Len(rendered.rows) = Cardinality(RowIdx)
        /\ Len(rendered.rows) =
              IF Cardinality(IdxAtLeastMin) < MaxShown
              THEN Cardinality(IdxAtLeastMin) ELSE MaxShown
        /\ RowsOrdered
        /\ \A i \in IdxAtLeastMin \ RowIdx :
              \A k \in 1..Len(rendered.rows) : Before(rendered.rows[k], matches[i])

C8_Witness ==
    /\ renderPc = "done"
    /\ ~EntryHas100
    /\ Cardinality(IdxAtLeastMin) = MaxShown + 1
    /\ Len(rendered.rows) = MaxShown
    /\ \E k \in 1..Len(rendered.rows) : rendered.rows[k].idx # k

(***************************************************************************)
(* Properties of the order of the entries (SpecDisplay).                   *)
(***************************************************************************)
EntryHasPerfect(e) ==
    \E k \in 1..Len(e.matches) : e.matches[k].confidence = PerfectConfidence

EntryBest(e) ==
    LET cs == {e.matches[k].confidence : k \in 1..Len(e.matches)}
        ok == {c \in cs : c >= MinConfidence}
    IN  IF ok = {} THEN 0 ELSE MaxOf(ok)

\* C9: the displayed entries are the entries of the response, those with a
\* confidence-100 candidate before those without, each group in
\* non-increasing best confidence (0 when no candidate reaches 70), ties in
\* the order of the response.
C9_EntriesOrdered ==
    displayPc = "done" =>
        /\ Len(sortedMissingModels) = Len(data)
        /\ {sortedMissingModels[k] : k \in 1..Len(sortedMissingModels)}
              = {data[k] : k \in 1..Len(data)}
        /\ \A j, k \in 1..Len(sortedMissingModels) :
              j < k =>
                LET a == sortedMissingModels[j]
                    b == sortedMissingModels[k]
                IN  /\ EntryHasPerfect(b) => EntryHasPerfect(a)
                    /\ (EntryHasPerfect(a) <=> EntryHasPerfect(b)) =>
                          \/ EntryBest(a) > EntryBest(b)
                          \/ EntryBest(a) = EntryBest(b) /\ a.id < b.id

C9_Witness ==
    /\ displayPc = "done"
    /\ Len(sortedMissingModels) = 3
    /\ sortedMissingModels[1].id = 3
    /\ EntryHasPerfect(sortedMissingModels[1])
    /\ ~EntryHasPerfect(sortedMissingModels[2])
    /\ EntryBest(sortedMissingModels[2]) = EntryBest(sortedMissingModels[3])
    /\ EntryBest(sortedMissingModels[2]) = 85

====
